---- MODULE Spec2Model ----
(***************************************************************************)
(* Model of the ydc-agent gateway core: the conversation store with its    *)
(* two backends (memory Map and sql.js database), the chat-completions     *)
(* history merge, and the two streaming re-emitters (flat-delta for        *)
(* /v1/chat/completions, typed-block for /v1/messages) with the upstream   *)
(* SSE line reassembly.                                                    *)
(*                                                                         *)
(* Both store backends are driven in lockstep by the same operations so    *)
(* that their contents can be compared.                                    *)
(***************************************************************************)
EXTENDS Integers, Sequences, FiniteSets, TLC

VARIABLES
    memoryStore,   \* Map id -> conversation (memory backend)
    db,            \* sql.js database: conversations table, messages table, rowid counter
    now,           \* Date.now()
    opCount,       \* number of store operations performed so far
    history,       \* the store operations performed so far, with their arguments
    route,         \* the streaming route in flight: "flat", "typed" or "none"
    pc,            \* position of the route handler
    upstream,      \* network chunks the upstream has still to deliver
    upEnd,         \* what the upstream does after its last chunk
    wire,          \* all the chunks of the upstream response, as sent
    buffer,        \* the line-reassembly buffer
    fullContent,   \* the text accumulated so far
    sink,          \* records the client received before res.end()
    sinkEnded,     \* res.end() has been called
    lateWrites,    \* records written after res.end()
    streamTimeout, \* the idle timer of handleStreamingResponse is armed
    idleElapsed,   \* an idle deadline has passed while the stream was in flight
    disconnected,  \* the client has closed the connection during the call
    textAtDisconnect, \* fullContent at the moment the client disconnected
    ceilingElapsed, \* the ceiling timeout has elapsed since the call started
    KEY_MODE,      \* YDC_KEY_MODE of the MCP server, fixed at start
    API_KEYS,      \* the credential pool of the MCP server, fixed at start
    YOU_AGENT_FAILURE_THRESHOLD, \* YDC_AGENT_FAILURE_THRESHOLD (default 3), fixed at start
    currentKeyIndex,      \* the rotation cursor (0-based)
    keyUsageCount,        \* Map key -> number of times issued
    keyErrorCount,        \* Map key -> number of errors marked
    youAgentFailureCount, \* failures recorded for you_agent
    youAgentDisabled,     \* the advisory disabled flag of you_agent
    toolCall,      \* the MCP tool call in flight, its upstream calls and its output
    upstreamCalls, \* number of upstream calls the tools have issued so far
    rotLog,        \* the getNextApiKey / markKeyError calls made so far, in order
    agentFailedCalls, \* failed you_agent upstream calls since the last reset
    keyFailedCalls, \* Map key -> failed upstream calls issued with the key
    saveTimeout,   \* handle of the timer scheduleSave set last (0: none yet)
    timers,        \* the save timers that are set and have not run
    dbFile,        \* the database image in the file at DB_PATH
    pendingWrites, \* times of the database mutations made since the last flush
    flushLog,      \* the flushes so far: when, and the mutations they wrote
    requests,      \* the concurrent /v1/chat/completions requests, by number
    promptReq,     \* the request handed to a prompt mapper: which mapper, messages, system
    input,         \* the prompt the mapper assembled for promptReq
    ACCESS_TOKENS, \* YDC_OPENAI_ACCESS_TOKENS of the HTTP server, fixed at start
    responses,     \* the HTTP requests served so far: route, header, status, handler run
    openaiServerProcess, \* the child the MCP server refers to (0: null)
    openaiServerStatus,  \* 'stopped', 'starting', 'running' or 'error'
    children,      \* the children spawned so far: "alive", "killed" or "exited"
    startWaits,    \* children whose start call still awaits its startup promise
    restartWaits   \* restart calls in their 1000 ms pause before starting

reqVars == <<requests>>
promptVars == <<promptReq, input>>
authVars == <<ACCESS_TOKENS, responses>>
serverVars == <<openaiServerProcess, openaiServerStatus, children, startWaits, restartWaits>>
frontVars == <<promptVars, authVars, serverVars>>
saveVars == <<saveTimeout, timers, dbFile, pendingWrites, flushLog>>
storeVars == <<memoryStore, db, now, opCount, history, saveVars>>
clientVars == <<disconnected, textAtDisconnect, ceilingElapsed>>
streamVars == <<route, pc, upstream, upEnd, wire, buffer, fullContent, sink,
                sinkEnded, lateWrites, streamTimeout, idleElapsed, clientVars>>
mcpVars == <<KEY_MODE, API_KEYS, YOU_AGENT_FAILURE_THRESHOLD, currentKeyIndex, keyUsageCount, keyErrorCount,
             youAgentFailureCount, youAgentDisabled, toolCall, upstreamCalls, rotLog,
             agentFailedCalls, keyFailedCalls>>
vars == <<memoryStore, db, now, opCount, history, route, pc, upstream, upEnd, wire,
          buffer, fullContent, sink, sinkEnded, lateWrites, streamTimeout,
          idleElapsed, disconnected, textAtDisconnect, ceilingElapsed,
          KEY_MODE, API_KEYS, YOU_AGENT_FAILURE_THRESHOLD, currentKeyIndex, keyUsageCount, keyErrorCount,
          youAgentFailureCount, youAgentDisabled, toolCall, upstreamCalls, rotLog,
          agentFailedCalls, keyFailedCalls, saveTimeout, timers, dbFile, pendingWrites, flushLog,
          requests, frontVars>>

(***************************************************************************)
(* Program constants                                                       *)
(***************************************************************************)
MAX_MESSAGES_PER_CONVERSATION == 100
MAX_CONVERSATIONS == 1000
CONVERSATION_TTL == 86400000
SAVE_DEBOUNCE == 1000   \* the delay of the setTimeout in scheduleSave

(***************************************************************************)
(* Bounds of the model                                                     *)
(***************************************************************************)
MaxOps == 3          \* store operations per behaviour
PrefillSlack == 2    \* initial histories hold MAX-PrefillSlack .. MAX turns (or none)

ConvIds == {"c1"}
Roles == {"system", "user", "assistant"}
NewContents == {<<"x">>}

Min(a, b) == IF a < b THEN a ELSE b
Max(a, b) == IF a > b THEN a ELSE b

(***************************************************************************)
(* JavaScript array helpers                                                *)
(***************************************************************************)
\* Array.prototype.slice(k) with one (possibly negative) argument
JsSlice(s, k) ==
    LET start == IF k < 0 THEN Max(Len(s) + k, 0) ELSE Min(k, Len(s))
    IN SubSeq(s, start + 1, Len(s))

IsSystem(m) == m.role = "system"
IsUser(m) == m.role = "user"
NotSystem(m) == m.role # "system"

\* Array.prototype.find: the first match as a 0- or 1-element sequence
FindFirst(s, Test(_)) ==
    LET f == SelectSeq(s, Test) IN IF f = <<>> THEN <<>> ELSE <<f[1]>>

\* filter(...).pop(): the last match as a 0- or 1-element sequence
FindLast(s, Test(_)) ==
    LET f == SelectSeq(s, Test) IN IF f = <<>> THEN <<>> ELSE <<f[Len(f)]>>

(***************************************************************************)
(* Memory backend                                                          *)
(***************************************************************************)
MemHas(store, id) == id \in DOMAIN store

MemSet(store, id, conv) ==
    [k \in (DOMAIN store) \cup {id} |-> IF k = id THEN conv ELSE store[k]]

MemDelete(store, id) ==
    [k \in (DOMAIN store) \ {id} |-> store[k]]

\* getConversation, memory branch, without the refresh of updatedAt
MemGetConversationNoTouch(store, id, t) == store

\* getConversation, memory branch: refreshes updatedAt
MemGetConversation(store, id, t) ==
    IF MemHas(store, id) THEN [store EXCEPT ![id].updatedAt = t] ELSE store

\* createConversation, memory branch: Map.set replaces any existing entry
MemCreateConversation(store, id, t) ==
    MemSet(store, id, [messages |-> <<>>, createdAt |-> t, updatedAt |-> t])

\* the eviction of addMessageToConversation, memory branch
MemEvict(msgs) ==
    IF Len(msgs) >= MAX_MESSAGES_PER_CONVERSATION
    THEN LET systemMsg == FindFirst(msgs, IsSystem)
         IN IF systemMsg # <<>>
            THEN systemMsg \o JsSlice(msgs, 2 - MAX_MESSAGES_PER_CONVERSATION)
            ELSE JsSlice(msgs, 1 - MAX_MESSAGES_PER_CONVERSATION)
    ELSE msgs

\* addMessageToConversation, memory branch, with unshift instead of push
MemAddMessageFront(store, id, role, content, t) ==
    LET s1 == IF MemHas(store, id) THEN store ELSE MemCreateConversation(store, id, t)
        msgs == MemEvict(s1[id].messages)
    IN [s1 EXCEPT ![id].messages =
                      <<[role |-> role, content |-> content, timestamp |-> t]>> \o msgs,
                  ![id].updatedAt = t]

\* addMessageToConversation, memory branch
MemAddMessage(store, id, role, content, t) ==
    LET s1 == IF MemHas(store, id) THEN store ELSE MemCreateConversation(store, id, t)
        msgs == MemEvict(s1[id].messages)
    IN [s1 EXCEPT ![id].messages =
                      Append(msgs, [role |-> role, content |-> content, timestamp |-> t]),
                  ![id].updatedAt = t]

(***************************************************************************)
(* SQLite backend (sql.js)                                                 *)
(***************************************************************************)
SqlHas(d, id) == id \in DOMAIN d.conversations

\* SELECT ... FROM messages WHERE conversation_id = ? ORDER BY id
SqlRows(d, id) ==
    LET Mine(r) == r.conversation_id = id IN SelectSeq(d.messages, Mine)

\* the messages of getConversation, sqlite branch: role, content, timestamp
SqlMessages(d, id) ==
    LET rows == SqlRows(d, id)
    IN [i \in 1..Len(rows) |->
          [role |-> rows[i].role, content |-> rows[i].content,
           timestamp |-> rows[i].timestamp]]

\* getConversation, sqlite branch: UPDATE conversations SET updated_at
SqlGetConversation(d, id, t) ==
    IF SqlHas(d, id)
    THEN [d EXCEPT !.conversations = [@ EXCEPT ![id].updated_at = t]]
    ELSE d

\* createConversation, sqlite branch: INSERT OR REPLACE INTO conversations
SqlCreateConversation(d, id, t) ==
    [d EXCEPT !.conversations =
        [k \in (DOMAIN @) \cup {id} |->
            IF k = id THEN [created_at |-> t, updated_at |-> t] ELSE @[k]]]

\* DELETE FROM messages WHERE id = ? for every id of toDelete
SqlDeleteRows(d, toDelete) ==
    LET Kept(r) == r.id \notin toDelete
    IN [d EXCEPT !.messages = SelectSeq(@, Kept)]

\* the eviction of addMessageToConversation, sqlite branch
SqlEvict(d, id) ==
    LET rows == SqlRows(d, id)
        count == Len(rows)
        systemMsgResult == FindFirst(rows, IsSystem)
        deleteCount == count - MAX_MESSAGES_PER_CONVERSATION + 2
        NotTheSystem(r) == r.id # systemMsgResult[1].id
        candidates == IF systemMsgResult # <<>>
                      THEN SelectSeq(rows, NotTheSystem)
                      ELSE rows
        toDelete == {candidates[i].id : i \in 1..Min(deleteCount, Len(candidates))}
    IN IF count >= MAX_MESSAGES_PER_CONVERSATION THEN SqlDeleteRows(d, toDelete) ELSE d

\* addMessageToConversation, sqlite branch
SqlAddMessage(d, id, role, content, t) ==
    LET d1 == IF SqlHas(d, id) THEN d ELSE SqlCreateConversation(d, id, t)
        d2 == SqlEvict(d1, id)
        row == [id |-> d2.seq + 1, conversation_id |-> id, role |-> role,
                content |-> content, timestamp |-> t]
        d3 == [d2 EXCEPT !.messages = Append(@, row), !.seq = @ + 1,
                         !.conversations = [@ EXCEPT ![id].updated_at = t]]
    IN SqlGetConversation(d3, id, t)

\* deleteConversation, sqlite branch
SqlDeleteConversation(d, id) ==
    LET Kept(r) == r.conversation_id # id
    IN [d EXCEPT !.messages = SelectSeq(@, Kept),
                 !.conversations = [k \in (DOMAIN @) \ {id} |-> @[k]]]

\* deleteConversation, memory branch
MemDeleteConversation(store, id) == MemDelete(store, id)

\* return memoryStore.delete(conversationId): whether the key was present
MemDeleteReturns(store, id) == MemHas(store, id)

\* the sqlite branch ends with return true
SqlDeleteReturns(d, id) == TRUE

(***************************************************************************)
(* cleanupConversations (the retention sweep)                              *)
(***************************************************************************)
\* the n entries with the smallest updatedAt of a map id -> updatedAt
RECURSIVE NewestIds(_, _)
NewestIds(upd, n) ==
    IF n <= 0 \/ DOMAIN upd = {} THEN {}
    ELSE LET vals == {upd[j] : j \in DOMAIN upd}
             newest == CHOOSE v \in vals : \A w \in vals : v >= w
             k == CHOOSE j \in DOMAIN upd : upd[j] = newest
         IN {k} \cup NewestIds([j \in (DOMAIN upd) \ {k} |-> upd[j]], n - 1)

\* the n entries with the smallest updatedAt of a map id -> updatedAt
RECURSIVE OldestIds(_, _)
OldestIds(upd, n) ==
    IF n <= 0 \/ DOMAIN upd = {} THEN {}
    ELSE LET vals == {upd[j] : j \in DOMAIN upd}
             oldest == CHOOSE v \in vals : \A w \in vals : v <= w
             k == CHOOSE j \in DOMAIN upd : upd[j] = oldest
         IN {k} \cup OldestIds([j \in (DOMAIN upd) \ {k} |-> upd[j]], n - 1)

\* cleanupConversations, memory branch
MemCleanup(store, t) ==
    LET expireTime == t - CONVERSATION_TTL
        live == {k \in DOMAIN store : ~(store[k].updatedAt < expireTime)}
        s1 == [k \in live |-> store[k]]
        over == Cardinality(live) - MAX_CONVERSATIONS
        toDelete == IF over > 0
                    THEN OldestIds([k \in live |-> s1[k].updatedAt], over)
                    ELSE {}
    IN [k \in live \ toDelete |-> s1[k]]

\* cleanupConversations, sqlite branch
SqlCleanup(d, t) ==
    LET expireTime == t - CONVERSATION_TTL
        live == {k \in DOMAIN d.conversations :
                    ~(d.conversations[k].updated_at < expireTime)}
        over == Cardinality(live) - MAX_CONVERSATIONS
        toDelete == IF over > 0
                    THEN OldestIds([k \in live |-> d.conversations[k].updated_at], over)
                    ELSE {}
        keep == live \ toDelete
        Kept(r) == r.conversation_id \in keep
    IN [d EXCEPT !.messages = SelectSeq(@, Kept),
                 !.conversations = [k \in keep |-> @[k]]]

\* the number cleanupConversations returns, memory branch: one per expired
\* entry plus toDelete.length
MemCleanupDeleted(store, t) ==
    LET expireTime == t - CONVERSATION_TTL
        expired == {k \in DOMAIN store : store[k].updatedAt < expireTime}
        size == Cardinality(DOMAIN store) - Cardinality(expired)
    IN Cardinality(expired) + (IF size > MAX_CONVERSATIONS
                               THEN size - MAX_CONVERSATIONS ELSE 0)

\* the number cleanupConversations returns, sqlite branch: one per row of
\* either SELECT
SqlCleanupDeleted(d, t) ==
    LET expireTime == t - CONVERSATION_TTL
        expired == {k \in DOMAIN d.conversations :
                       d.conversations[k].updated_at < expireTime}
        count == Cardinality(DOMAIN d.conversations) - Cardinality(expired)
    IN Cardinality(expired) + (IF count > MAX_CONVERSATIONS
                               THEN Min(count - MAX_CONVERSATIONS, count) ELSE 0)

(***************************************************************************)
(* /v1/chat/completions: history merge, user turn, system-turn insertion   *)
(***************************************************************************)
RoleContent(msgs) ==
    [i \in 1..Len(msgs) |-> [role |-> msgs[i].role, content |-> msgs[i].content]]

\* fullMessages as built from the request messages and the stored turns
MergeHistory(stored, messages) ==
    IF Len(stored) > 0
    THEN LET storedMessages == RoleContent(stored)
             newUserMessages == SelectSeq(messages, IsUser)
             reqSystem == FindFirst(messages, IsSystem)
             systemMsg == IF reqSystem # <<>> THEN reqSystem
                          ELSE FindFirst(storedMessages, IsSystem)
             base == systemMsg \o SelectSeq(storedMessages, NotSystem)
             lastNewUserMsg == IF newUserMessages = <<>> THEN <<>>
                               ELSE <<newUserMessages[Len(newUserMessages)]>>
             alreadyExists ==
                 \E i \in 1..Len(base) :
                     base[i].role = "user" /\ base[i].content = lastNewUserMsg[1].content
         IN IF lastNewUserMsg # <<>> /\ ~alreadyExists
            THEN base \o lastNewUserMsg
            ELSE base
    ELSE messages

\* the store after the synchronous part of the route, memory backend
MemChatRequest(store, id, messages, t) ==
    LET s0 == MemGetConversation(store, id, t)
        stored == IF MemHas(s0, id) THEN s0[id].messages ELSE <<>>
        fullMessages == MergeHistory(stored, messages)
        lastUserMsg == FindLast(fullMessages, IsUser)
        s1 == IF lastUserMsg # <<>>
              THEN MemAddMessage(s0, id, "user", lastUserMsg[1].content, t)
              ELSE s0
        systemMsg == FindFirst(fullMessages, IsSystem)
        s2 == MemGetConversation(s1, id, t)
    IN IF systemMsg # <<>> /\ MemHas(s2, id)
          /\ FindFirst(s2[id].messages, IsSystem) = <<>>
       THEN [s2 EXCEPT ![id].messages =
                <<[role |-> "system", content |-> systemMsg[1].content,
                   timestamp |-> t]>> \o @]
       ELSE IF systemMsg # <<>> THEN s2 ELSE s1

\* the store after the synchronous part of the route, sqlite backend:
\* getConversation returns a fresh object, so the unshift never reaches the db
SqlChatRequest(d, id, messages, t) ==
    LET d0 == SqlGetConversation(d, id, t)
        stored == IF SqlHas(d0, id) THEN SqlMessages(d0, id) ELSE <<>>
        fullMessages == MergeHistory(stored, messages)
        lastUserMsg == FindLast(fullMessages, IsUser)
        d1 == IF lastUserMsg # <<>>
              THEN SqlAddMessage(d0, id, "user", lastUserMsg[1].content, t)
              ELSE d0
        systemMsg == FindFirst(fullMessages, IsSystem)
    IN IF systemMsg # <<>> THEN SqlGetConversation(d1, id, t) ELSE d1

(***************************************************************************)
(* The debounced save of the sqlite backend                                *)
(***************************************************************************)
\* scheduleSave without the clearTimeout
scheduleSaveNoCancel(handle, set, t) ==
    set \cup {[id |-> handle + 1, due |-> t + SAVE_DEBOUNCE]}

\* the timers after scheduleSave() at time t: the timer of the handle is
\* cleared (a no-op when it has run) and a new one is set
scheduleSave(handle, set, t) ==
    {x \in set : x.id # handle} \cup {[id |-> handle + 1, due |-> t + SAVE_DEBOUNCE]}

\* a handler that changed the database ends with scheduleSave(); a handler
\* that calls it several times leaves the same single timer
ScheduleSave ==
    /\ timers' = scheduleSave(saveTimeout, timers, now)
    /\ saveTimeout' = saveTimeout + 1
    /\ pendingWrites' = pendingWrites \cup {now}
    /\ UNCHANGED <<dbFile, flushLog>>

SaveIf(called) == IF called THEN ScheduleSave ELSE UNCHANGED saveVars

\* the timer callback: db.export() written to DB_PATH
SaveFires ==
    /\ \E x \in timers :
          /\ x.due <= now
          /\ timers' = timers \ {x}
    /\ dbFile' = db
    /\ flushLog' = Append(flushLog, [at |-> now, writes |-> pendingWrites])
    /\ pendingWrites' = {}
    /\ UNCHANGED <<memoryStore, db, now, opCount, history, saveTimeout>>
    /\ UNCHANGED <<streamVars, mcpVars, reqVars, frontVars>>

\* the database file holds what initDatabase loaded, and its initial save
\* has run
SaveSettled ==
    /\ saveTimeout = 1 /\ timers = {}
    /\ dbFile = db
    /\ pendingWrites = {} /\ flushLog = <<>>

\* whether the chat-completions route reaches a scheduleSave: a stored
\* conversation is read, or a user turn is appended
SqlChatRequestSaves(d, id, messages) ==
    LET stored == IF SqlHas(d, id) THEN SqlMessages(d, id) ELSE <<>>
    IN SqlHas(d, id) \/ FindLast(MergeHistory(stored, messages), IsUser) # <<>>

(***************************************************************************)
(* Initial store contents.  The database file is loaded at initDatabase,   *)
(* so the store starts from a history of earlier appends: either empty or  *)
(* a conversation close to the turn cap, with no system turn, a leading    *)
(* one, or one appended in the middle of the history.                      *)
(***************************************************************************)
HistoryRole(i, sysAt) ==
    IF i = sysAt THEN "system" ELSE IF i % 2 = 1 THEN "user" ELSE "assistant"

History(n, sysAt) ==
    [i \in 1..n |-> [role |-> HistoryRole(i, sysAt), content |-> <<"h">>,
                     timestamp |-> i]]

HistoryRows(id, n, sysAt) ==
    [i \in 1..n |-> [id |-> i, conversation_id |-> id,
                     role |-> HistoryRole(i, sysAt), content |-> <<"h">>,
                     timestamp |-> i]]

PrefillLens == {0} \cup
    ((MAX_MESSAGES_PER_CONVERSATION - PrefillSlack) .. MAX_MESSAGES_PER_CONVERSATION)
SysPositions == {0, 1, MAX_MESSAGES_PER_CONVERSATION \div 2}

EmptyMap == [k \in {} |-> 0]

(***************************************************************************)
(* The MCP server (index.js): credential rotation, the you_agent failure   *)
(* counter, and the tools that fan one prompt out to parallel upstream     *)
(* calls.                                                                   *)
(***************************************************************************)

\* Map.get(key) || 0
MapGet(m, key) == IF key \in DOMAIN m THEN m[key] ELSE 0

\* Map.set(key, 1): the earlier count is forgotten
BumpOverwrite(m, key) ==
    [k \in (DOMAIN m) \cup {key} |-> IF k = key THEN 1 ELSE m[k]]

\* Map.set(key, (Map.get(key) || 0) + 1)
Bump(m, key) ==
    [k \in (DOMAIN m) \cup {key} |->
        IF k = key THEN (IF key \in DOMAIN m THEN m[key] ELSE 0) + 1 ELSE m[k]]

\* getNextApiKey advancing the cursor under the sequential policy too
getNextApiKeyAlwaysAdvance(mode, keys, idx) ==
    IF Len(keys) = 1 THEN {[key |-> keys[1], currentKeyIndex |-> idx]}
    ELSE IF mode = "random"
         THEN {[key |-> keys[i], currentKeyIndex |-> idx] : i \in 1..Len(keys)}
    ELSE {[key |-> keys[idx + 1], currentKeyIndex |-> (idx + 1) % Len(keys)]}

\* getNextApiKey: the possible results [key, currentKeyIndex] (one, except
\* under the random policy)
getNextApiKey(mode, keys, idx) ==
    IF Len(keys) = 1 THEN {[key |-> keys[1], currentKeyIndex |-> idx]}
    ELSE IF mode = "sequential"
         THEN {[key |-> keys[idx + 1], currentKeyIndex |-> idx]}
    ELSE IF mode = "random"
         THEN {[key |-> keys[i], currentKeyIndex |-> idx] : i \in 1..Len(keys)}
    ELSE {[key |-> keys[idx + 1], currentKeyIndex |-> (idx + 1) % Len(keys)]}

\* markKeyError advancing the cursor under every policy
markKeyErrorAnyMode(mode, keys, idx) == (idx + 1) % Len(keys)

\* markKeyError: the cursor afterwards
markKeyError(mode, keys, idx) ==
    IF mode = "sequential" THEN (idx + 1) % Len(keys) ELSE idx

\* n calls of getNextApiKey in a row: the possible [keys, currentKeyIndex]
RECURSIVE NextKeys(_, _, _, _)
NextKeys(mode, keys, idx, n) ==
    IF n = 0 THEN {[keys |-> <<>>, currentKeyIndex |-> idx]}
    ELSE UNION {{[keys |-> <<r.key>> \o rest.keys,
                  currentKeyIndex |-> rest.currentKeyIndex] :
                    rest \in NextKeys(mode, keys, r.currentKeyIndex, n - 1)} :
                r \in getNextApiKey(mode, keys, idx)}

\* keyUsageCount after the keys of ks were issued
RECURSIVE BumpAll(_, _)
BumpAll(m, ks) == IF ks = <<>> THEN m ELSE BumpAll(Bump(m, Head(ks)), Tail(ks))

\* the rotLog entries of issuing the keys of ks
NextEntries(ks) == [i \in 1..Len(ks) |-> [op |-> "next", key |-> ks[i]]]

\* recordYouAgentFailure
recordYouAgentFailure(st) ==
    LET c == st.count + 1
    IN [count |-> c,
        disabled |-> IF c >= YOU_AGENT_FAILURE_THRESHOLD THEN TRUE ELSE st.disabled]

\* resetYouAgentFailures
resetYouAgentFailures(st) == [count |-> 0, disabled |-> FALSE]

\* AgentStateAfter with a success that heals the counter
AgentStateAfterHealing(ok, st) ==
    IF ok THEN resetYouAgentFailures(st) ELSE recordYouAgentFailure(st)

\* the failure counter after an upstream call of callCustomAgent settled: the
\* success path leaves it alone, the catch block records the failure
AgentStateAfter(ok, st) ==
    IF ok THEN st ELSE recordYouAgentFailure(st)

\* no tool call in flight
NoToolCall ==
    [name |-> "none", phase |-> "idle", count |-> 0, show_results |-> FALSE,
     summary |-> FALSE, calls |-> <<>>, probe |-> "none", summaryKey |-> "none",
     output |-> [kind |-> "none"]]

\* the MCP server is not part of the behaviour
McpIdle ==
    /\ KEY_MODE = "round-robin" /\ API_KEYS = <<"k1">>
    /\ YOU_AGENT_FAILURE_THRESHOLD = 3
    /\ currentKeyIndex = 0
    /\ keyUsageCount = EmptyMap /\ keyErrorCount = EmptyMap
    /\ youAgentFailureCount = 0 /\ youAgentDisabled = FALSE
    /\ toolCall = NoToolCall /\ upstreamCalls = 0
    /\ rotLog = <<>> /\ agentFailedCalls = 0 /\ keyFailedCalls = EmptyMap

\* no prompt being mapped, no HTTP request served, no server child spawned
PromptIdle ==
    /\ promptReq = [api |-> "none", messages |-> <<>>, system |-> <<>>, pc |-> "idle"]
    /\ input = <<>>

AuthIdle == ACCESS_TOKENS = <<>> /\ responses = <<>>

ServerIdle ==
    /\ openaiServerProcess = 0 /\ openaiServerStatus = "stopped"
    /\ children = <<>> /\ startWaits = {} /\ restartWaits = 0

FrontIdle == PromptIdle /\ AuthIdle /\ ServerIdle

\* no concurrent requests are part of the behaviour
NoRequests == requests = <<>>

\* no streaming call in flight
StreamIdle ==
    /\ route = "none" /\ pc = "idle"
    /\ upstream = <<>> /\ upEnd = "done" /\ wire = <<>>
    /\ buffer = <<>> /\ fullContent = <<>>
    /\ sink = <<>> /\ sinkEnded = FALSE /\ lateWrites = <<>>
    /\ streamTimeout = FALSE /\ idleElapsed = FALSE
    /\ disconnected = FALSE /\ textAtDisconnect = <<>> /\ ceilingElapsed = FALSE

StoreInit ==
    /\ StreamIdle
    /\ McpIdle
    /\ NoRequests
    /\ FrontIdle
    /\ \E id \in ConvIds, n \in PrefillLens, sysAt \in SysPositions :
          /\ sysAt <= n
          /\ memoryStore = IF n = 0 THEN EmptyMap
                           ELSE [k \in {id} |-> [messages |-> History(n, sysAt),
                                                 createdAt |-> 0, updatedAt |-> n]]
          /\ db = IF n = 0
                  THEN [conversations |-> EmptyMap, messages |-> <<>>, seq |-> 0]
                  ELSE [conversations |-> [k \in {id} |-> [created_at |-> 0, updated_at |-> n]],
                        messages |-> HistoryRows(id, n, sysAt), seq |-> n]
          /\ now = n + 1
          /\ opCount = 0
          /\ history = <<>>
    /\ SaveSettled

(***************************************************************************)
(* Store operations, applied to both backends                              *)
(***************************************************************************)
Create(id) ==
    /\ opCount < MaxOps
    /\ memoryStore' = MemCreateConversation(memoryStore, id, now)
    /\ db' = SqlCreateConversation(db, id, now)
    /\ history' = Append(history, [name |-> "create", id |-> id])
    /\ ScheduleSave
    /\ now' = now + 1 /\ opCount' = opCount + 1
    /\ UNCHANGED <<streamVars, mcpVars, reqVars, frontVars>>

AppendTurn(id, role, content) ==
    /\ opCount < MaxOps
    /\ memoryStore' = MemAddMessage(memoryStore, id, role, content, now)
    /\ db' = SqlAddMessage(db, id, role, content, now)
    /\ history' = Append(history, [name |-> "append", id |-> id, role |-> role, content |-> content])
    /\ ScheduleSave
    /\ now' = now + 1 /\ opCount' = opCount + 1
    /\ UNCHANGED <<streamVars, mcpVars, reqVars, frontVars>>

Get(id) ==
    /\ opCount < MaxOps
    /\ memoryStore' = MemGetConversation(memoryStore, id, now)
    /\ db' = SqlGetConversation(db, id, now)
    /\ history' = Append(history, [name |-> "get", id |-> id, at |-> now,
                                    found |-> MemHas(memoryStore, id) /\ SqlHas(db, id)])
    /\ SaveIf(SqlHas(db, id))
    /\ now' = now + 1 /\ opCount' = opCount + 1
    /\ UNCHANGED <<streamVars, mcpVars, reqVars, frontVars>>

Delete(id) ==
    /\ opCount < MaxOps
    /\ memoryStore' = MemDeleteConversation(memoryStore, id)
    /\ db' = SqlDeleteConversation(db, id)
    /\ history' = Append(history, [name |-> "delete", id |-> id,
                                    existed |-> SqlHas(db, id),
                                    returned |-> [mem |-> MemDeleteReturns(memoryStore, id),
                                                  sql |-> SqlDeleteReturns(db, id)]])
    /\ ScheduleSave
    /\ now' = now + 1 /\ opCount' = opCount + 1
    /\ UNCHANGED <<streamVars, mcpVars, reqVars, frontVars>>

Sweep ==
    /\ opCount < MaxOps
    /\ memoryStore' = MemCleanup(memoryStore, now)
    /\ db' = SqlCleanup(db, now)
    /\ history' = Append(history, [name |-> "sweep", at |-> now,
                                    deleted |-> [mem |-> MemCleanupDeleted(memoryStore, now),
                                                 sql |-> SqlCleanupDeleted(db, now)]])
    /\ SaveIf(SqlCleanupDeleted(db, now) > 0)
    /\ now' = now + 1 /\ opCount' = opCount + 1
    /\ UNCHANGED <<streamVars, mcpVars, reqVars, frontVars>>

\* more than one TTL passes without any store activity
ClockJump ==
    /\ opCount < MaxOps
    /\ now' = now + CONVERSATION_TTL + 1
    /\ history' = Append(history, [name |-> "clock"])
    /\ opCount' = opCount + 1
    /\ UNCHANGED <<memoryStore, db, saveVars>>
    /\ UNCHANGED <<streamVars, mcpVars, reqVars, frontVars>>

ReqMessages ==
    { <<[role |-> "user", content |-> <<"x">>]>>,
      <<[role |-> "system", content |-> <<"s">>], [role |-> "user", content |-> <<"x">>]>>,
      <<[role |-> "system", content |-> <<"s">>]>> }

ChatCompletionsRequest(id, messages) ==
    /\ opCount < MaxOps
    /\ memoryStore' = MemChatRequest(memoryStore, id, messages, now)
    /\ db' = SqlChatRequest(db, id, messages, now)
    /\ history' = Append(history, [name |-> "chat", id |-> id, messages |-> messages])
    /\ SaveIf(SqlChatRequestSaves(db, id, messages))
    /\ now' = now + 1 /\ opCount' = opCount + 1
    /\ UNCHANGED <<streamVars, mcpVars, reqVars, frontVars>>

StoreNext ==
    \/ \E id \in ConvIds : Create(id)
    \/ \E id \in ConvIds, role \in Roles, content \in NewContents :
           AppendTurn(id, role, content)
    \/ \E id \in ConvIds : Get(id)
    \/ \E id \in ConvIds : Delete(id)
    \/ Sweep
    \/ ClockJump
    \/ \E id \in ConvIds, messages \in ReqMessages : ChatCompletionsRequest(id, messages)

StoreSpec == StoreInit /\ [][StoreNext]_vars

(***************************************************************************)
(* The retention sweep on a store near its capacity: the store starts with *)
(* about MAX_CONVERSATIONS conversations (loaded from the database file or *)
(* created since the last sweep), one of them long idle.                   *)
(***************************************************************************)
OverCapacity == 2   \* initial stores hold MAX-1 .. MAX+OverCapacity conversations

\* the id of the i-th stored conversation
ConvName(i) == "conv" \o ToString(i)

\* its updatedAt: the first one is old, the others recent with ties
UpdatedAtOf(i) == IF i = 1 THEN 0 ELSE CONVERSATION_TTL + (i % 3)

\* the conversations read, and the one created, between sweeps
SweepReadIds == {ConvName(1), ConvName(3)}
SweepNewIds == {"new"}

SweepInit ==
    /\ StreamIdle
    /\ McpIdle
    /\ NoRequests
    /\ FrontIdle
    /\ \E n \in (MAX_CONVERSATIONS - 1)..(MAX_CONVERSATIONS + OverCapacity) :
          LET IndexOf(k) == CHOOSE i \in 1..n : ConvName(i) = k
              upd == [k \in {ConvName(i) : i \in 1..n} |-> UpdatedAtOf(IndexOf(k))]
          IN /\ memoryStore = [k \in DOMAIN upd |->
                                  [messages |-> <<>>, createdAt |-> 0,
                                   updatedAt |-> upd[k]]]
             /\ db = [conversations |-> [k \in DOMAIN upd |->
                                            [created_at |-> 0, updated_at |-> upd[k]]],
                      messages |-> <<>>, seq |-> 0]
    /\ now \in {CONVERSATION_TTL, CONVERSATION_TTL + 5}
    /\ opCount = 0
    /\ history = <<>>
    /\ SaveSettled

SweepNext ==
    \/ \E id \in SweepNewIds : Create(id)
    \/ \E id \in SweepReadIds : Get(id)
    \/ Sweep
    \/ ClockJump

SweepSpec == SweepInit /\ [][SweepNext]_vars

(***************************************************************************)
(* Observations of the store                                               *)
(***************************************************************************)
MemMessages(id) == IF MemHas(memoryStore, id) THEN memoryStore[id].messages ELSE <<>>
DbMessages(id) == SqlMessages(db, id)

OnlyAppends == \A i \in 1..Len(history) : history[i].name = "append"

(***************************************************************************)
(* Claims about the conversation store                                     *)
(***************************************************************************)
\* C1: every stored conversation holds at most MAX_MESSAGES_PER_CONVERSATION
\* turns, on both backends, in every reachable state of the store.
C1_TurnCap ==
    \A id \in ConvIds :
        /\ Len(MemMessages(id)) <= MAX_MESSAGES_PER_CONVERSATION
        /\ Len(DbMessages(id)) <= MAX_MESSAGES_PER_CONVERSATION

\* s without its k oldest non-system turns, order kept
RECURSIVE DropOldestNonSystem(_, _)
DropOldestNonSystem(s, k) ==
    IF k = 0 \/ s = <<>> THEN s
    ELSE IF s[1].role = "system"
         THEN <<s[1]>> \o DropOldestNonSystem(Tail(s), k)
         ELSE DropOldestNonSystem(Tail(s), k - 1)

\* after = before without some of its oldest non-system turns, plus the new turn
EvictedOldestOnly(before, after) ==
    Len(before) >= MAX_MESSAGES_PER_CONVERSATION =>
        /\ after # <<>>
        /\ \E k \in 1..Len(before) :
               SubSeq(after, 1, Len(after) - 1) = DropOldestNonSystem(before, k)

\* C2: an append that evicts removes only the oldest non-system turns; the
\* survivors keep their order, none is duplicated, on both backends.
C2_EvictionOrder ==
    [][\A id \in ConvIds :
          (history' # history /\ history'[Len(history')].name = "append"
              /\ history'[Len(history')].id = id)
          => /\ EvictedOldestOnly(MemMessages(id), MemMessages(id)')
             /\ EvictedOldestOnly(DbMessages(id), DbMessages(id)')]_vars

\* C3: after any sequence of appends the two backends hold the same turns.
C3_BackendsAgree ==
    OnlyAppends =>
        \A id \in ConvIds : RoleContent(MemMessages(id)) = RoleContent(DbMessages(id))

(***************************************************************************)
(* Upstream wire format.  Text is a sequence of one-character strings.     *)
(* A JSON payload is written "{" tag text "}" with tag "d" for a           *)
(* response.output_text.delta record of a message.answer and tag "o" for a *)
(* record with a top-level output list (items separated by ",");  "{}" is  *)
(* a well-formed record of another type.                                   *)
(***************************************************************************)
NL == "\n"
DATA_PREFIX == <<"d", "a", "t", "a", ":", " ">>
DONE_SENTINEL == <<"[", "D", "O", "N", "E", "]">>
Letters == {"a", "b", "c"}

\* String.prototype.startsWith
StartsWith(s, prefix) ==
    Len(s) >= Len(prefix) /\ SubSeq(s, 1, Len(prefix)) = prefix

\* String.prototype.split on one separator character
SplitOn(s, sep) ==
    LET P == {i \in 1..Len(s) : s[i] = sep}
        n == Cardinality(P)
        Kth(k) == CHOOSE q \in P : Cardinality({x \in P : x <= q}) = k
    IN <<>> \o [k \in 1..(n + 1) |->
                  SubSeq(s, IF k = 1 THEN 1 ELSE Kth(k - 1) + 1,
                            IF k = n + 1 THEN Len(s) ELSE Kth(k) - 1)]

IsText(t) == \A i \in 1..Len(t) : t[i] \in Letters

\* JSON.parse handing back the payload as a delta where it should throw
JsonParseNoThrow(p) ==
    IF Len(p) < 2 \/ p[1] # "{" \/ p[Len(p)] # "}"
    THEN <<[type |-> "delta", delta |-> p]>>
    ELSE LET body == SubSeq(p, 2, Len(p) - 1)
         IN IF body = <<>> THEN <<[type |-> "other"]>>
            ELSE IF body[1] = "d" /\ IsText(Tail(body))
                 THEN <<[type |-> "delta", delta |-> Tail(body)]>>
            ELSE IF body[1] = "o" /\ \A i \in 2..Len(body) : body[i] \in Letters \cup {","}
                 THEN <<[type |-> "output", output |-> SplitOn(Tail(body), ",")]>>
            ELSE <<[type |-> "delta", delta |-> p]>>

\* JSON.parse of a payload: <<>> when it throws, else <<record>>
JsonParse(p) ==
    IF Len(p) < 2 \/ p[1] # "{" \/ p[Len(p)] # "}" THEN <<>>
    ELSE LET body == SubSeq(p, 2, Len(p) - 1)
         IN IF body = <<>> THEN <<[type |-> "other"]>>
            ELSE IF body[1] = "d" /\ IsText(Tail(body))
                 THEN <<[type |-> "delta", delta |-> Tail(body)]>>
            ELSE IF body[1] = "o" /\ \A i \in 2..Len(body) : body[i] \in Letters \cup {","}
                 THEN <<[type |-> "output", output |-> SplitOn(Tail(body), ",")]>>
            ELSE <<>>

\* the upstream's encoding of one SSE record: the data line and a blank line
DeltaRecord(t) == DATA_PREFIX \o <<"{", "d">> \o t \o <<"}">> \o <<NL, NL>>
OutputRecord(t) == DATA_PREFIX \o <<"{", "o">> \o t \o <<"}">> \o <<NL, NL>>
DoneRecord == DATA_PREFIX \o DONE_SENTINEL \o <<NL, NL>>
MalformedRecord == DATA_PREFIX \o <<"{", "d">> \o <<NL, NL>>
CommentRecord == <<":", NL, NL>>

(***************************************************************************)
(* Records written to the client                                           *)
(***************************************************************************)
\* createStreamChunk: content <<>> stands for a delta without content
createStreamChunk(content, finishReason) ==
    [kind |-> "chunk", content |-> content, finish_reason |-> finishReason]
DoneLine == [kind |-> "[DONE]"]
ErrorLine == [kind |-> "error"]
TIMEOUT_NOTICE == <<"T">>
ERROR_TEXT == <<"E">>

createMessageStartEvent == [event |-> "message_start"]
createContentBlockStartEvent == [event |-> "content_block_start"]
createContentBlockDeltaEvent(text) == [event |-> "content_block_delta", text |-> text]
createContentBlockStopEvent == [event |-> "content_block_stop"]
createMessageDeltaEvent(outputTokens) ==
    [event |-> "message_delta", output_tokens |-> outputTokens]
createMessageStopEvent == [event |-> "message_stop"]

(***************************************************************************)
(* Line handling of the two read loops.  st carries fullContent, the       *)
(* records written while handling the chunk, and whether the idle timer    *)
(* was restarted.                                                          *)
(***************************************************************************)
\* FlatLine sending the accumulated text instead of the fragment
FlatLineAccumulated(st, line) ==
    IF StartsWith(line, DATA_PREFIX)
    THEN LET data == JsonParse(SubSeq(line, 7, Len(line)))
         IN IF data # <<>> /\ data[1].type = "delta" /\ data[1].delta # <<>>
            THEN [fullContent |-> st.fullContent \o data[1].delta,
                  out |-> Append(st.out,
                                 createStreamChunk(st.fullContent \o data[1].delta, "null")),
                  rearm |-> TRUE]
            ELSE st
    ELSE st

\* handleStreamingResponse, body of `for (const line of lines)`
FlatLine(st, line) ==
    IF StartsWith(line, DATA_PREFIX)
    THEN LET data == JsonParse(SubSeq(line, 7, Len(line)))
         IN IF data # <<>> /\ data[1].type = "delta" /\ data[1].delta # <<>>
            THEN [fullContent |-> st.fullContent \o data[1].delta,
                  out |-> Append(st.out, createStreamChunk(data[1].delta, "null")),
                  rearm |-> TRUE]
            ELSE st
    ELSE st

\* F applied to the value of v
Strict(F(_), v) == CHOOSE res \in {F(x) : x \in {v}} : TRUE

\* processStream, body of the loop over parsed.output
TypedOutputItem(st, text) ==
    LET newText == JsSlice(text, Len(st.fullContent))
    IN IF text # <<>> /\ newText # <<>>
       THEN [st EXCEPT !.fullContent = text,
                       !.out = Append(@, createContentBlockDeltaEvent(newText))]
       ELSE st

\* processStream, the loop over parsed.output
RECURSIVE TypedOutputItems(_, _)
TypedOutputItems(st, items) ==
    IF items = <<>> THEN st
    ELSE LET Rest(x) == TypedOutputItems(x, Tail(items))
         IN Strict(Rest, TypedOutputItem(st, Head(items)))

\* processStream, body of `for (const line of lines)`
TypedLine(st, line) ==
    IF StartsWith(line, DATA_PREFIX)
    THEN LET data == SubSeq(line, 7, Len(line))
             parsed == JsonParse(data)
         IN IF data = DONE_SENTINEL \/ parsed = <<>> THEN st
            ELSE IF parsed[1].type = "delta" /\ parsed[1].delta # <<>>
                 THEN [st EXCEPT !.fullContent = @ \o parsed[1].delta,
                                 !.out = Append(@, createContentBlockDeltaEvent(parsed[1].delta))]
            ELSE IF parsed[1].type = "output"
                 THEN TypedOutputItems(st, parsed[1].output)
            ELSE st
    ELSE st

\* the `for (const line of lines)` loop of either route
RECURSIVE ProcessLines(_, _, _)
ProcessLines(r, st, lines) ==
    IF lines = <<>> THEN st
    ELSE LET Rest(x) == ProcessLines(r, x, Tail(lines))
         IN Strict(Rest, IF r = "flat" THEN FlatLine(st, Head(lines))
                         ELSE TypedLine(st, Head(lines)))

\* ProcessChunk forgetting the incomplete line kept from the previous chunk
ProcessChunkNoCarry(r, buf, content, chunk) ==
    LET Loop(lines) ==
            LET st == ProcessLines(r, [fullContent |-> content, out |-> <<>>,
                                       rearm |-> FALSE],
                                   SubSeq(lines, 1, Len(lines) - 1))
            IN [buffer |-> lines[Len(lines)], fullContent |-> st.fullContent,
                out |-> st.out, rearm |-> st.rearm]
    IN Strict(Loop, SplitOn(chunk, NL))

\* one pass of the read loop over a chunk: the new buffer and the line results
ProcessChunk(r, buf, content, chunk) ==
    LET Loop(lines) ==
            LET st == ProcessLines(r, [fullContent |-> content, out |-> <<>>,
                                       rearm |-> FALSE],
                                   SubSeq(lines, 1, Len(lines) - 1))
            IN [buffer |-> lines[Len(lines)], fullContent |-> st.fullContent,
                out |-> st.out, rearm |-> st.rearm]
    IN Strict(Loop, SplitOn(buf \o chunk, NL))

(***************************************************************************)
(* The streaming routes.  One call is in flight on conversation StreamConv;*)
(* the route has already stored the user turn.                             *)
(***************************************************************************)
StreamConv == "c1"

\* res.write of recs, in order: nothing reaches the client after res.end()
WriteSink(recs) == IF sinkEnded THEN sink ELSE sink \o recs
WriteLate(recs) == IF sinkEnded THEN lateWrites \o recs ELSE lateWrites

\* `if (conversationId && fullContent) addMessageToConversation(...)`
StoreAssistant(content) ==
    IF content # <<>>
    THEN /\ memoryStore' = MemAddMessage(memoryStore, StreamConv, "assistant", content, now)
         /\ db' = SqlAddMessage(db, StreamConv, "assistant", content, now)
         /\ ScheduleSave
    ELSE UNCHANGED <<memoryStore, db, saveVars>>

\* handleStreamingResponse up to the first reader.read()
StartFlat ==
    /\ route = "flat" /\ pc = "start"
    /\ IF upEnd = "nobody"
       THEN /\ sink' = WriteSink(<<ErrorLine>>)
            /\ lateWrites' = WriteLate(<<ErrorLine>>)
            /\ sinkEnded' = TRUE
            /\ pc' = "returned"
            /\ UNCHANGED streamTimeout
       ELSE /\ streamTimeout' = TRUE
            /\ pc' = "reading"
            /\ UNCHANGED <<sink, lateWrites, sinkEnded>>
    /\ UNCHANGED <<route, upstream, upEnd, wire, buffer, fullContent, idleElapsed>>
    /\ UNCHANGED storeVars
    /\ UNCHANGED <<clientVars, mcpVars, reqVars, frontVars>>

\* /v1/messages streaming branch up to `await callYouApi`
StartTyped ==
    /\ route = "typed" /\ pc = "start"
    /\ sink' = WriteSink(<<createMessageStartEvent, createContentBlockStartEvent>>)
    /\ lateWrites' = WriteLate(<<createMessageStartEvent, createContentBlockStartEvent>>)
    /\ pc' = "calling"
    /\ UNCHANGED <<route, upstream, upEnd, wire, buffer, fullContent, sinkEnded,
                   streamTimeout, idleElapsed>>
    /\ UNCHANGED storeVars
    /\ UNCHANGED <<clientVars, mcpVars, reqVars, frontVars>>

\* TypedErrorClose leaving the content block open
TypedErrorCloseNoStop ==
    <<createContentBlockDeltaEvent(ERROR_TEXT), createMessageDeltaEvent(0),
      createMessageStopEvent>>

\* the closing events of an error path of the /v1/messages streaming branch
TypedErrorClose ==
    <<createContentBlockDeltaEvent(ERROR_TEXT), createContentBlockStopEvent,
      createMessageDeltaEvent(0), createMessageStopEvent>>

\* callYouApi settles: it throws (non-2xx, network failure, abort), or the
\* response has no body and getReader throws, or the read loop starts
CallYouApiSettles ==
    /\ route = "typed" /\ pc = "calling"
    /\ IF upEnd \in {"callfail", "nobody"}
       THEN /\ sink' = WriteSink(TypedErrorClose)
            /\ lateWrites' = WriteLate(TypedErrorClose)
            /\ sinkEnded' = TRUE
            /\ pc' = "returned"
       ELSE /\ pc' = "reading"
            /\ UNCHANGED <<sink, lateWrites, sinkEnded>>
    /\ UNCHANGED <<route, upstream, upEnd, wire, buffer, fullContent,
                   streamTimeout, idleElapsed>>
    /\ UNCHANGED storeVars
    /\ UNCHANGED <<clientVars, mcpVars, reqVars, frontVars>>

\* reader.read() yields a chunk: one pass of the while loop of either route
ReadChunk ==
    /\ pc = "reading" /\ upstream # <<>>
    /\ \E r \in {ProcessChunk(route, buffer, fullContent, Head(upstream))} :
          /\ buffer' = r.buffer
          /\ fullContent' = r.fullContent
          /\ sink' = WriteSink(r.out)
          /\ lateWrites' = WriteLate(r.out)
          /\ streamTimeout' = (streamTimeout \/ r.rearm)
    /\ upstream' = Tail(upstream)
    /\ UNCHANGED <<route, pc, upEnd, wire, sinkEnded, idleElapsed>>
    /\ UNCHANGED storeVars
    /\ UNCHANGED <<clientVars, mcpVars, reqVars, frontVars>>

\* the closing records of the flat route (the finally block)
FlatClose == <<createStreamChunk(<<>>, "stop"), DoneLine>>

\* the closing events of processStream after a normal end of stream
TypedClose(content) ==
    <<createContentBlockStopEvent, createMessageDeltaEvent(Len(content) \div 4),
      createMessageStopEvent>>

\* reader.read() yields done: leave the loop, store the answer, close
ReadDone ==
    /\ pc = "reading" /\ upstream = <<>> /\ upEnd = "done"
    /\ StoreAssistant(fullContent)
    /\ LET closing == IF route = "flat" THEN FlatClose ELSE TypedClose(fullContent)
       IN /\ sink' = WriteSink(closing)
          /\ lateWrites' = WriteLate(closing)
    /\ sinkEnded' = TRUE
    /\ streamTimeout' = FALSE
    /\ pc' = "returned"
    /\ now' = now + 1
    /\ UNCHANGED <<route, upstream, upEnd, wire, buffer, fullContent, idleElapsed>>
    /\ UNCHANGED <<opCount, history>>
    /\ UNCHANGED <<clientVars, mcpVars, reqVars, frontVars>>

\* reader.read() rejects: the catch block (and finally) of either route;
\* the flat route leaves its idle timer armed
ReadError ==
    /\ pc = "reading" /\ upstream = <<>> /\ upEnd = "error"
    /\ LET closing == IF route = "flat" THEN <<ErrorLine>> \o FlatClose
                      ELSE TypedErrorClose
       IN /\ sink' = WriteSink(closing)
          /\ lateWrites' = WriteLate(closing)
    /\ sinkEnded' = TRUE
    /\ pc' = "returned"
    /\ UNCHANGED <<route, upstream, upEnd, wire, buffer, fullContent,
                   streamTimeout, idleElapsed>>
    /\ UNCHANGED storeVars
    /\ UNCHANGED <<clientVars, mcpVars, reqVars, frontVars>>

\* the records of the setTimeout callback of handleStreamingResponse
TimeoutRecords == <<createStreamChunk(TIMEOUT_NOTICE, "length"), DoneLine>>

\* the idle timer of the flat route fires: its callback writes and ends
TimerFires ==
    /\ route = "flat" /\ streamTimeout
    /\ sink' = WriteSink(TimeoutRecords)
    /\ lateWrites' = WriteLate(TimeoutRecords)
    /\ sinkEnded' = TRUE
    /\ streamTimeout' = FALSE
    /\ idleElapsed' = (idleElapsed \/ pc = "reading")
    /\ UNCHANGED <<route, pc, upstream, upEnd, wire, buffer, fullContent>>
    /\ UNCHANGED storeVars
    /\ UNCHANGED <<clientVars, mcpVars, reqVars, frontVars>>

\* the idle deadline passes on the typed route, which arms no timer
DeadlinePasses ==
    /\ route = "typed" /\ pc = "reading" /\ ~idleElapsed
    /\ idleElapsed' = TRUE
    /\ UNCHANGED <<route, pc, upstream, upEnd, wire, buffer, fullContent, sink,
                   sinkEnded, lateWrites, streamTimeout>>
    /\ UNCHANGED storeVars
    /\ UNCHANGED <<clientVars, mcpVars, reqVars, frontVars>>

\* the 'close' event of the client connection is emitted while the call is
\* in flight: neither route registers a listener for it, so the handler
\* state is untouched
ClientDisconnects ==
    /\ route \in {"flat", "typed"} /\ pc \in {"calling", "reading"}
    /\ ~disconnected /\ ~sinkEnded
    /\ disconnected' = TRUE
    /\ textAtDisconnect' = fullContent
    /\ UNCHANGED <<route, pc, upstream, upEnd, wire, buffer, fullContent, sink,
                   sinkEnded, lateWrites, streamTimeout, idleElapsed, ceilingElapsed>>
    /\ UNCHANGED <<storeVars, mcpVars, reqVars, frontVars>>

\* the ceiling timeout elapses while the body is being read: callYouApi
\* cleared its abort timer when the response headers arrived, so nothing
\* runs (before the headers the abort is the failed call of CallYouApiSettles)
CeilingPasses ==
    /\ route \in {"flat", "typed"} /\ pc = "reading" /\ ~ceilingElapsed
    /\ ceilingElapsed' = TRUE
    /\ UNCHANGED <<route, pc, upstream, upEnd, wire, buffer, fullContent, sink,
                   sinkEnded, lateWrites, streamTimeout, idleElapsed,
                   disconnected, textAtDisconnect>>
    /\ UNCHANGED <<storeVars, mcpVars, reqVars, frontVars>>

(***************************************************************************)
(* Initial states of a streaming call                                      *)
(***************************************************************************)
MaxFrags == 2     \* upstream records per response, one per chunk
MaxRecords == 2   \* upstream records per response when chunks are cut freely
MaxChunks == 2    \* network chunks a response is cut into

RECURSIVE Concat(_)
Concat(ss) == IF ss = <<>> THEN <<>> ELSE Head(ss) \o Concat(Tail(ss))

RECURSIVE SeqsUpTo(_, _)
SeqsUpTo(S, n) ==
    IF n = 0 THEN {<<>>}
    ELSE LET prev == SeqsUpTo(S, n - 1)
         IN prev \cup {Append(q, x) : q \in prev, x \in S}

\* the store once the route has stored the user turn of the request
StreamStoreInit ==
    /\ memoryStore = MemAddMessage(EmptyMap, StreamConv, "user", <<"x">>, 0)
    /\ db = SqlAddMessage([conversations |-> EmptyMap, messages |-> <<>>, seq |-> 0],
                          StreamConv, "user", <<"x">>, 0)
    /\ now = 1 /\ opCount = 0 /\ history = <<>>
    /\ SaveSettled

StreamSessionInit(r, chunks, end) ==
    /\ McpIdle
    /\ NoRequests
    /\ FrontIdle
    /\ route = r /\ pc = "start"
    /\ upstream = chunks /\ wire = chunks /\ upEnd = end
    /\ buffer = <<>> /\ fullContent = <<>>
    /\ sink = <<>> /\ sinkEnded = FALSE /\ lateWrites = <<>>
    /\ streamTimeout = FALSE /\ idleElapsed = FALSE
    /\ disconnected = FALSE /\ textAtDisconnect = <<>> /\ ceilingElapsed = FALSE

StreamRecords ==
    {DeltaRecord(<<"a">>), DeltaRecord(<<"b">>), OutputRecord(<<"a", "b">>),
     OutputRecord(<<"a", "b", "c">>), OutputRecord(<<"a", ",", "b">>),
     OutputRecord(<<"a", "b", "c", "a">>)}

\* every upstream behaviour: records one per chunk, then end of stream, a
\* read error or silence; or no body at all; or (typed) a failed call
StreamInit ==
    /\ StreamStoreInit
    /\ \E r \in {"flat", "typed"}, end \in {"done", "error", "stall", "nobody", "callfail"},
          chunks \in SeqsUpTo(StreamRecords, MaxFrags) :
          /\ end \in {"nobody", "callfail"} => chunks = <<>>
          /\ end = "callfail" => r = "typed"
          /\ StreamSessionInit(r, chunks, end)

StreamNext ==
    \/ StartFlat
    \/ StartTyped
    \/ CallYouApiSettles
    \/ ReadChunk
    \/ ReadDone
    \/ ReadError
    \/ TimerFires
    \/ DeadlinePasses
    \/ ClientDisconnects
    \/ CeilingPasses

StreamSpec == StreamInit /\ [][StreamNext]_vars

\* the next step of the route handler, whichever it is
HandlerStep ==
    StartFlat \/ StartTyped \/ CallYouApiSettles \/ ReadChunk \/ ReadDone \/ ReadError

\* an armed timer fires unless cleared, a settled read is handled, a started
\* handler runs on; the upstream itself owes nothing
FairStreamSpec ==
    StreamSpec /\ WF_vars(HandlerStep) /\ WF_vars(TimerFires)

(***************************************************************************)
(* The demultiplexer under arbitrary chunking: the same routes, fed a byte *)
(* stream cut at any positions, with an upstream that ends normally.       *)
(***************************************************************************)
WireRecords ==
    {DeltaRecord(<<"a">>), DeltaRecord(<<"b">>), OutputRecord(<<"a", "b">>),
     DoneRecord, MalformedRecord, CommentRecord}

\* the sets of at most k cut positions among 1..n
RECURSIVE CutSets(_, _)
CutSets(n, k) ==
    IF k <= 0 \/ n <= 0 THEN {{}}
    ELSE LET prev == CutSets(n, k - 1)
         IN prev \cup {S \cup {c} : S \in prev, c \in 1..n}

\* s cut into chunks after each position of cuts
RECURSIVE CutAt(_, _)
CutAt(s, cuts) ==
    IF s = <<>> THEN <<>>
    ELSE IF cuts = {} THEN <<s>>
    ELSE LET c == CHOOSE c \in cuts : \A d \in cuts : d <= c
         IN CutAt(SubSeq(s, 1, c), cuts \ {c}) \o <<SubSeq(s, c + 1, Len(s))>>

DemuxInit ==
    /\ StreamStoreInit
    /\ \E r \in {"flat", "typed"}, recs \in SeqsUpTo(WireRecords, MaxRecords) :
          \E cuts \in CutSets(Len(Concat(recs)) - 1, MaxChunks - 1) :
              StreamSessionInit(r, CutAt(Concat(recs), cuts), "done")

DemuxNext ==
    \/ StartFlat
    \/ StartTyped
    \/ CallYouApiSettles
    \/ ReadChunk
    \/ ReadDone

DemuxSpec == DemuxInit /\ [][DemuxNext]_vars

(***************************************************************************)
(* Observations of a streaming call                                        *)
(***************************************************************************)
IsTimeoutChunk(rec) == rec = createStreamChunk(TIMEOUT_NOTICE, "length")
TimerHasFired ==
    \/ \E i \in 1..Len(sink) : IsTimeoutChunk(sink[i])
    \/ \E i \in 1..Len(lateWrites) : IsTimeoutChunk(lateWrites[i])

\* the stream ran from its first read to the normal end of stream
EndedNormally == pc = "returned" /\ upEnd = "done" /\ ~TimerHasFired

IsAssistant(m) == m.role = "assistant"
Contents(msgs) == [i \in 1..Len(msgs) |-> msgs[i].content]
AssistantTurnsMem == Contents(SelectSeq(MemMessages(StreamConv), IsAssistant))
AssistantTurnsDb == Contents(SelectSeq(DbMessages(StreamConv), IsAssistant))

\* the texts of the delta records the client received, in order
IsFlatDelta(rec) == rec.kind = "chunk" /\ rec.finish_reason = "null"
IsTypedDelta(rec) == rec.event = "content_block_delta"
FlatDeltaTexts == Contents(SelectSeq(sink, IsFlatDelta))
TypedDeltaTexts ==
    LET d == SelectSeq(sink, IsTypedDelta) IN [i \in 1..Len(d) |-> d[i].text]

(***************************************************************************)
(* Claims about the streaming routes                                       *)
(***************************************************************************)
\* the event names of a complete typed-block response
CompleteTyped(s) ==
    /\ Len(s) >= 5
    /\ s[1].event = "message_start"
    /\ s[2].event = "content_block_start"
    /\ \A i \in 3..(Len(s) - 3) : s[i].event = "content_block_delta"
    /\ s[Len(s) - 2].event = "content_block_stop"
    /\ s[Len(s) - 1].event = "message_delta"
    /\ s[Len(s)].event = "message_stop"

\* the event names of a typed-block response still open
OpenTyped(s) ==
    /\ Len(s) >= 1 => s[1].event = "message_start"
    /\ Len(s) >= 2 => s[2].event = "content_block_start"
    /\ \A i \in 3..Len(s) : s[i].event = "content_block_delta"

\* C4: a streaming /v1/messages call writes message_start, content_block_start,
\* any number of content_block_delta, content_block_stop, message_delta,
\* message_stop in this order, ends the sink after them and writes nothing
\* afterwards, for every fragment count and every failure of call or stream.
C4_TypedEventOrder ==
    route = "typed" =>
        /\ lateWrites = <<>>
        /\ IF sinkEnded THEN CompleteTyped(sink) ELSE OpenTyped(sink)
        /\ pc = "returned" => sinkEnded

C4_Witness ==
    /\ route = "typed" /\ sinkEnded /\ upEnd = "error"
    /\ Len(sink) >= 7

\* the delta texts of a response whose chunks are whole records
RECURSIVE DeltaTextsOf(_)
DeltaTextsOf(chunks) ==
    IF chunks = <<>> THEN <<>>
    ELSE (IF \E t \in {<<"a">>, <<"b">>} : Head(chunks) = DeltaRecord(t)
          THEN <<SubSeq(Head(chunks), 9, Len(Head(chunks)) - 3)>>
          ELSE <<>>) \o DeltaTextsOf(Tail(chunks))

\* C5: a flat-delta stream that ends normally has delivered one delta chunk
\* per fragment, carrying the fragments in order, then one terminal chunk
\* without content and one [DONE], and the sink is closed.
C5_FlatRoundTrip ==
    (route = "flat" /\ EndedNormally) =>
        LET frags == DeltaTextsOf(wire)
        IN /\ sink = [i \in 1..Len(frags) |-> createStreamChunk(frags[i], "null")]
                        \o <<createStreamChunk(<<>>, "stop"), DoneLine>>
           /\ Concat(FlatDeltaTexts) = Concat(frags)
           /\ sinkEnded /\ lateWrites = <<>>

C5_Witness ==
    /\ route = "flat" /\ EndedNormally
    /\ wire = <<DeltaRecord(<<"a">>), DeltaRecord(<<"b">>)>>

\* C6: however the byte stream is cut into chunks, the fragments delivered
\* and the accumulated text are those of the same bytes read as one chunk.
C6_ChunkingIndependent ==
    pc = "returned" =>
        LET whole == ProcessChunk(route, <<>>, <<>>, Concat(wire))
        IN /\ fullContent = whole.fullContent
           /\ sink = IF route = "flat" THEN whole.out \o FlatClose
                     ELSE <<createMessageStartEvent, createContentBlockStartEvent>>
                          \o whole.out \o TypedClose(whole.fullContent)

C6_Witness ==
    /\ pc = "returned" /\ Len(wire) = 2 /\ fullContent = <<"a">>
    /\ wire[1] = SubSeq(DeltaRecord(<<"a">>), 1, 3)

\* the lines of the whole upstream byte stream
WireLines == SplitOn(Concat(wire), NL)

\* a line `data: {...}` carrying a text delta, and its text
IsDeltaLine(line) ==
    /\ StartsWith(line, DATA_PREFIX) /\ Len(line) >= Len(DATA_PREFIX) + 4
    /\ line[7] = "{" /\ line[8] = "d" /\ line[Len(line)] = "}"
    /\ \A i \in 9..(Len(line) - 1) : line[i] \in Letters
DeltaOfLine(line) == SubSeq(line, 9, Len(line) - 1)

\* a line `data: {...}` carrying an output list
IsOutputLine(line) ==
    /\ StartsWith(line, DATA_PREFIX) /\ Len(line) >= Len(DATA_PREFIX) + 3
    /\ line[7] = "{" /\ line[8] = "o"

\* C27: in a stream of delta records and of lines that are not records
\* (malformed JSON, `data: [DONE]`, no `data: ` prefix), the fragments
\* emitted by either route are the texts of the delta lines, in order: the
\* other lines emit nothing and stop nothing
C27_BadLinesSkipped ==
    (pc = "returned" /\ \A i \in 1..Len(WireLines) : ~IsOutputLine(WireLines[i])) =>
        LET deltaLines == SelectSeq(WireLines, IsDeltaLine)
        IN (IF route = "flat" THEN FlatDeltaTexts ELSE TypedDeltaTexts)
              = [i \in 1..Len(deltaLines) |-> DeltaOfLine(deltaLines[i])]

\* a stream whose first record is one of the skipped lines and whose second
\* is a delta record, read to its end
C27_Witness ==
    /\ pc = "returned"
    /\ \E bad \in {DoneRecord, MalformedRecord, CommentRecord} :
          Concat(wire) = bad \o DeltaRecord(<<"a">>)
    /\ (IF route = "flat" THEN FlatDeltaTexts ELSE TypedDeltaTexts) = << <<"a">> >>

\* C7: full-text records "ab" then "abc" yield the fragments "ab" then "c",
\* on the flat-delta route and on the typed-block route.
C7_SuffixOnly ==
    (EndedNormally /\ wire = <<OutputRecord(<<"a", "b">>), OutputRecord(<<"a", "b", "c">>)>>)
    => (IF route = "flat" THEN FlatDeltaTexts ELSE TypedDeltaTexts)
           = << <<"a", "b">>, <<"c">> >>

\* the call is over: the sink is closed and the handler has returned after the
\* end of stream, or the idle timer fired and the upstream stays silent
StreamOver ==
    /\ sinkEnded
    /\ \/ pc = "returned" /\ upEnd = "done"
       \/ idleElapsed /\ upstream = <<>> /\ upEnd = "stall"

\* C8: when a streaming call is over, by end of stream or by idle timeout,
\* the conversation holds exactly one assistant turn, the accumulated text.
C8_OneAssistantTurn ==
    (StreamOver /\ fullContent # <<>>) =>
        /\ AssistantTurnsMem = <<fullContent>>
        /\ AssistantTurnsDb = <<fullContent>>

\* the sink holds the timeout notice, then a [DONE] / the closing events
HasTimeoutNotice ==
    IF route = "flat"
    THEN \E i \in 1..(Len(sink) - 1) : IsTimeoutChunk(sink[i]) /\ sink[i + 1] = DoneLine
    ELSE \E i \in 1..Len(sink) :
            sink[i] = createContentBlockDeltaEvent(TIMEOUT_NOTICE)

\* C9: on either route, once the idle deadline has passed on a stream in
\* flight, the timeout notice and the terminal records are written and the
\* sink is closed.
C9_IdleTimeoutCloses ==
    idleElapsed => (sinkEnded /\ HasTimeoutNotice)

\* C10: every streaming response is eventually closed.
C10_EventuallyClosed == <>sinkEnded

\* C11: once the client has disconnected no further chunk is read (so no
\* further fragment is written), and from the disconnect on the conversation
\* holds the text accumulated up to the disconnect as its one assistant turn
C11_DisconnectTearsDown ==
    [][/\ disconnected => upstream' = upstream
       /\ (disconnected' /\ textAtDisconnect' # <<>>) =>
            /\ AssistantTurnsMem' = <<textAtDisconnect'>>
            /\ AssistantTurnsDb' = <<textAtDisconnect'>>]_vars

\* C12: once the ceiling timeout has elapsed no further chunk of the
\* response body is read
C12_CeilingAborts ==
    [][ceilingElapsed => upstream' = upstream /\ fullContent' = fullContent]_vars

\* the length already emitted for item k
EmittedFor(emitted, k) == IF k <= Len(emitted) THEN emitted[k] ELSE 0

\* emitted with the length of item k set to n
SetEmitted(emitted, k, n) ==
    [i \in 1..Max(Len(emitted), k) |-> IF i = k THEN n ELSE EmittedFor(emitted, i)]

\* the text due for the items k.. of an output list, each item against the
\* length already emitted for it
RECURSIVE ItemsDue(_, _, _)
ItemsDue(items, k, emitted) ==
    IF k > Len(items) THEN [text |-> <<>>, emitted |-> emitted]
    ELSE LET due == JsSlice(items[k], Min(EmittedFor(emitted, k), Len(items[k])))
             rest == ItemsDue(items, k + 1,
                              SetEmitted(emitted, k, Max(EmittedFor(emitted, k), Len(items[k]))))
         IN [text |-> due \o rest.text, emitted |-> rest.emitted]

\* the text due for a stream of records, one per chunk: a delta record is
\* due in full and counts for the first item, an output list is due item
\* by item
RECURSIVE TextDue(_, _)
TextDue(chunks, emitted) ==
    IF chunks = <<>> THEN <<>>
    ELSE LET parsed == JsonParse(SubSeq(Head(chunks), 7, Len(Head(chunks)) - 2))
         IN IF parsed = <<>> THEN TextDue(Tail(chunks), emitted)
            ELSE IF parsed[1].type = "delta"
                 THEN parsed[1].delta
                      \o TextDue(Tail(chunks),
                                 SetEmitted(emitted, 1,
                                            EmittedFor(emitted, 1) + Len(parsed[1].delta)))
            ELSE IF parsed[1].type = "output"
                 THEN LET r == ItemsDue(parsed[1].output, 1, emitted)
                      IN r.text \o TextDue(Tail(chunks), r.emitted)
            ELSE TextDue(Tail(chunks), emitted)

\* C25: the fragments of a typed-block stream that ended normally carry the
\* text of every item exactly once, the emitted length being tracked item
\* by item
C25_EachItemOnce ==
    (route = "typed" /\ EndedNormally) => Concat(TypedDeltaTexts) = TextDue(wire, <<>>)

IsMessageDelta(rec) == rec.event = "message_delta"

\* C29: the message_delta event of a typed-block stream carries
\* floor(L / 4) output tokens, L being the length of the accumulated text,
\* however the stream ended
C29_OutputTokens ==
    route = "typed" =>
        \A i \in 1..Len(sink) :
            IsMessageDelta(sink[i]) => sink[i].output_tokens = Len(fullContent) \div 4

\* C24: once the flat route has written [DONE] and ended the sink, it makes
\* no further write to it
C24_NothingAfterDone ==
    route = "flat" => lateWrites = <<>>

(***************************************************************************)
(* Tool calls of the MCP server                                            *)
(***************************************************************************)
MaxUpstream == 3  \* upstream calls per behaviour, over all tool calls
MaxKeys == 2      \* size of the credential pool

KeyModes == {"round-robin", "sequential", "random"}

\* parseInt(process.env.YDC_AGENT_FAILURE_THRESHOLD) || 3: the default and a
\* lower setting
Thresholds == {2, 3}
ToolNames == {"you_express", "you_advanced", "you_agent"}

\* the i-th credential of the pool
KeyName(i) == "k" \o ToString(i)

\* extractText(data) of the i-th parallel call
Payload(i) == "result" \o ToString(i)

\* the `results` array of a fan-out: index, success and result of every call
FanResults(calls) ==
    [i \in 1..Len(calls) |->
        IF calls[i].status = "ok"
        THEN [index |-> i, success |-> TRUE, result |-> calls[i].result]
        ELSE [index |-> i, success |-> FALSE, result |-> "error"]]

IsSuccess(r) == r.success

\* FanOutput listing only the first successful result
FanOutputFirstOnly(name, count, results, show, summaryText) ==
    LET ok == SelectSeq(results, IsSuccess)
    IN [kind |-> "aggregate", total_calls |-> count, successful |-> Len(ok),
        failed |-> count - Len(ok), summary |-> summaryText, shown |-> show,
        results |-> IF show /\ ok # <<>> THEN <<ok[1]>> ELSE <<>>,
        fallback |-> "none"]

\* the `output` object of callExpressMultiple, callAdvancedMultiple and
\* callCustomAgent for count > 1
FanOutput(name, count, results, show, summaryText) ==
    LET successCount == Len(SelectSeq(results, IsSuccess))
        needsResultsFallback ==
            name # "you_agent" /\ ~show /\ summaryText = "none" /\ successCount > 0
    IN [kind |-> "aggregate", total_calls |-> count, successful |-> successCount,
        failed |-> count - successCount, summary |-> summaryText, shown |-> show,
        results |-> IF show THEN results ELSE <<>>,
        fallback |-> IF needsResultsFallback
                     THEN SelectSeq(results, IsSuccess)[1].result ELSE "none"]

\* the tool issues its parallel (or single) upstream calls: getNextApiKey
\* runs once per call, in order, before any of them settles
BeginCalls(tc) ==
    \E r \in NextKeys(KEY_MODE, API_KEYS, currentKeyIndex, tc.count) :
       /\ toolCall' = [tc EXCEPT !.phase = "calls",
                                 !.calls = [i \in 1..tc.count |->
                                              [key |-> r.keys[i], status |-> "pending",
                                               result |-> "none"]]]
       /\ currentKeyIndex' = r.currentKeyIndex
       /\ keyUsageCount' = BumpAll(keyUsageCount, r.keys)
       /\ rotLog' = rotLog \o NextEntries(r.keys)

\* a tools/call request arrives: you_express / you_advanced / you_agent with
\* call_count n; you_agent may first probe the agent's knowledge cutoff
ToolStart(name, n, show, summ, enh) ==
    /\ toolCall.phase \in {"idle", "done"}
    /\ upstreamCalls + n + (IF enh THEN 1 ELSE 0) + (IF summ THEN 1 ELSE 0) <= MaxUpstream
    /\ upstreamCalls' = upstreamCalls + n + (IF enh THEN 1 ELSE 0)
    /\ LET tc == [NoToolCall EXCEPT !.name = name, !.count = n,
                                    !.show_results = show, !.summary = summ]
       IN IF enh
          THEN /\ \E r \in getNextApiKey(KEY_MODE, API_KEYS, currentKeyIndex) :
                    /\ toolCall' = [tc EXCEPT !.phase = "probe", !.probe = r.key]
                    /\ currentKeyIndex' = r.currentKeyIndex
                    /\ keyUsageCount' = Bump(keyUsageCount, r.key)
                    /\ rotLog' = Append(rotLog, [op |-> "next", key |-> r.key])
          ELSE BeginCalls(tc)
    /\ UNCHANGED <<KEY_MODE, API_KEYS, YOU_AGENT_FAILURE_THRESHOLD, keyErrorCount, youAgentFailureCount,
                   youAgentDisabled, agentFailedCalls, keyFailedCalls>>
    /\ UNCHANGED <<storeVars, streamVars, reqVars, frontVars>>

\* the knowledge-cutoff probe of you_agent settles: a failure is swallowed
\* (`knowledgeInfo = { error, probe_skipped }`) and the tool goes on
ProbeSettles(ok) ==
    /\ toolCall.phase = "probe"
    /\ agentFailedCalls' = agentFailedCalls + (IF ok THEN 0 ELSE 1)
    /\ keyFailedCalls' = IF ok THEN keyFailedCalls ELSE Bump(keyFailedCalls, toolCall.probe)
    /\ BeginCalls(toolCall)
    /\ UNCHANGED <<KEY_MODE, API_KEYS, YOU_AGENT_FAILURE_THRESHOLD, keyErrorCount, youAgentFailureCount,
                   youAgentDisabled, upstreamCalls>>
    /\ UNCHANGED <<storeVars, streamVars, reqVars, frontVars>>

\* the result of a tool whose call_count is 1, once its only call settled
SingleOutput(name, ok, result, failures) ==
    IF ok THEN [kind |-> "single", success |-> TRUE, result |-> result]
    ELSE IF name = "you_agent"
         THEN [kind |-> "single", success |-> FALSE, current_failures |-> failures]
    ELSE [kind |-> "error"]

\* the i-th upstream call of the tool settles: on failure the catch block
\* marks the key and, for you_agent, records the failure
CallSettles(i, ok) ==
    /\ toolCall.phase = "calls" /\ i \in 1..Len(toolCall.calls)
    /\ toolCall.calls[i].status = "pending"
    /\ LET key == toolCall.calls[i].key
           agent == toolCall.name = "you_agent"
           st == IF agent
                 THEN AgentStateAfter(ok, [count |-> youAgentFailureCount,
                                           disabled |-> youAgentDisabled])
                 ELSE [count |-> youAgentFailureCount, disabled |-> youAgentDisabled]
           calls == [toolCall.calls EXCEPT
                        ![i] = [key |-> key,
                                status |-> IF ok THEN "ok" ELSE "fail",
                                result |-> IF ok THEN Payload(i) ELSE "none"]]
       IN /\ youAgentFailureCount' = st.count
          /\ youAgentDisabled' = st.disabled
          /\ agentFailedCalls' = agentFailedCalls + (IF agent /\ ~ok THEN 1 ELSE 0)
          /\ keyFailedCalls' = IF ok THEN keyFailedCalls ELSE Bump(keyFailedCalls, key)
          /\ IF ok
             THEN UNCHANGED <<currentKeyIndex, keyErrorCount, rotLog>>
             ELSE /\ currentKeyIndex' = markKeyError(KEY_MODE, API_KEYS, currentKeyIndex)
                  /\ keyErrorCount' = Bump(keyErrorCount, key)
                  /\ rotLog' = Append(rotLog, [op |-> "error", key |-> key])
          /\ toolCall' =
                IF toolCall.count = 1
                THEN [toolCall EXCEPT
                         !.calls = calls, !.phase = "done",
                         !.output = SingleOutput(toolCall.name, ok, Payload(i), st.count)]
                ELSE [toolCall EXCEPT !.calls = calls]
    /\ UNCHANGED <<KEY_MODE, API_KEYS, YOU_AGENT_FAILURE_THRESHOLD, keyUsageCount, upstreamCalls>>
    /\ UNCHANGED <<storeVars, streamVars, reqVars, frontVars>>

\* Promise.all / Promise.allSettled resolves: count the successes, then
\* either call generateSummary or build the output
Aggregate ==
    /\ toolCall.phase = "calls" /\ toolCall.count > 1
    /\ \A i \in 1..Len(toolCall.calls) : toolCall.calls[i].status # "pending"
    /\ LET results == FanResults(toolCall.calls)
           successCount == Len(SelectSeq(results, IsSuccess))
       IN IF toolCall.summary /\ successCount > 1
          THEN \E r \in getNextApiKey(KEY_MODE, API_KEYS, currentKeyIndex) :
                  /\ toolCall' = [toolCall EXCEPT !.phase = "summary",
                                                  !.summaryKey = r.key]
                  /\ upstreamCalls' = upstreamCalls + 1
                  /\ currentKeyIndex' = r.currentKeyIndex
                  /\ keyUsageCount' = Bump(keyUsageCount, r.key)
                  /\ rotLog' = Append(rotLog, [op |-> "next", key |-> r.key])
          ELSE /\ toolCall' = [toolCall EXCEPT
                                  !.phase = "done",
                                  !.output = FanOutput(toolCall.name, toolCall.count,
                                                       results, toolCall.show_results,
                                                       "none")]
               /\ UNCHANGED <<currentKeyIndex, keyUsageCount, rotLog, upstreamCalls>>
    /\ UNCHANGED <<KEY_MODE, API_KEYS, YOU_AGENT_FAILURE_THRESHOLD, keyErrorCount, youAgentFailureCount,
                   youAgentDisabled, agentFailedCalls, keyFailedCalls>>
    /\ UNCHANGED <<storeVars, streamVars, reqVars, frontVars>>

\* the express call of generateSummary settles; a failure marks the key and
\* yields the text `Summary generation failed: ...`
SummarySettles(ok) ==
    /\ toolCall.phase = "summary"
    /\ toolCall' = [toolCall EXCEPT
                       !.phase = "done",
                       !.output = FanOutput(toolCall.name, toolCall.count,
                                            FanResults(toolCall.calls),
                                            toolCall.show_results,
                                            IF ok THEN "summary" ELSE "failed")]
    /\ IF ok
       THEN UNCHANGED <<currentKeyIndex, keyErrorCount, rotLog>>
       ELSE /\ currentKeyIndex' = markKeyError(KEY_MODE, API_KEYS, currentKeyIndex)
            /\ keyErrorCount' = Bump(keyErrorCount, toolCall.summaryKey)
            /\ rotLog' = Append(rotLog, [op |-> "error", key |-> toolCall.summaryKey])
    /\ UNCHANGED <<KEY_MODE, API_KEYS, YOU_AGENT_FAILURE_THRESHOLD, keyUsageCount, youAgentFailureCount,
                   youAgentDisabled, upstreamCalls, agentFailedCalls>>
    /\ keyFailedCalls' = IF ok THEN keyFailedCalls
                         ELSE Bump(keyFailedCalls, toolCall.summaryKey)
    /\ UNCHANGED <<storeVars, streamVars, reqVars, frontVars>>

\* resetYouAgentFailures()
ResetYouAgentFailures ==
    /\ youAgentFailureCount > 0
    /\ LET st == resetYouAgentFailures([count |-> youAgentFailureCount,
                                        disabled |-> youAgentDisabled])
       IN /\ youAgentFailureCount' = st.count
          /\ youAgentDisabled' = st.disabled
    /\ agentFailedCalls' = 0
    /\ UNCHANGED <<KEY_MODE, API_KEYS, YOU_AGENT_FAILURE_THRESHOLD, currentKeyIndex, keyUsageCount, keyErrorCount,
                   toolCall, upstreamCalls, rotLog, keyFailedCalls>>
    /\ UNCHANGED <<storeVars, streamVars, reqVars, frontVars>>

\* the MCP server after start-up, for every key mode and pool size; the
\* store and the streaming routes play no part
McpInit ==
    /\ StreamIdle
    /\ memoryStore = EmptyMap
    /\ db = [conversations |-> EmptyMap, messages |-> <<>>, seq |-> 0]
    /\ now = 0 /\ opCount = 0 /\ history = <<>>
    /\ SaveSettled
    /\ NoRequests
    /\ FrontIdle
    /\ KEY_MODE \in KeyModes
    /\ YOU_AGENT_FAILURE_THRESHOLD \in Thresholds
    /\ \E n \in 1..MaxKeys : API_KEYS = [i \in 1..n |-> KeyName(i)]
    /\ currentKeyIndex = 0
    /\ keyUsageCount = EmptyMap /\ keyErrorCount = EmptyMap
    /\ youAgentFailureCount = 0 /\ youAgentDisabled = FALSE
    /\ toolCall = NoToolCall /\ upstreamCalls = 0
    /\ rotLog = <<>> /\ agentFailedCalls = 0 /\ keyFailedCalls = EmptyMap

McpNext ==
    \/ \E name \in ToolNames, n \in 1..MaxUpstream, show \in BOOLEAN, summ \in BOOLEAN,
          enh \in BOOLEAN :
          /\ name = "you_advanced" => n > 1 /\ show /\ ~summ
          /\ enh => name = "you_agent" /\ n = 1
          /\ n = 1 => ~show /\ ~summ
          /\ summ => show /\ name = "you_express"
          /\ ToolStart(name, n, show, summ, enh)
    \/ \E ok \in BOOLEAN : ProbeSettles(ok)
    \/ \E i \in 1..MaxUpstream, ok \in BOOLEAN : CallSettles(i, ok)
    \/ Aggregate
    \/ \E ok \in BOOLEAN : SummarySettles(ok)
    \/ ResetYouAgentFailures

McpSpec == McpInit /\ [][McpNext]_vars

(***************************************************************************)
(* Claims about the credential rotator, the failure counter and fan-out    *)
(***************************************************************************)
IsNext(e) == e.op = "next"
IsError(e) == e.op = "error"

\* C13: under round-robin with a pool of n >= 2 credentials the k-th key
\* issued is the one at index (k-1) mod n, whatever errors were marked
C13_RoundRobinOrder ==
    (KEY_MODE = "round-robin" /\ Len(API_KEYS) >= 2) =>
        LET nexts == SelectSeq(rotLog, IsNext)
        IN \A k \in 1..Len(nexts) :
              nexts[k].key = API_KEYS[((k - 1) % Len(API_KEYS)) + 1]

C13_Witness ==
    /\ KEY_MODE = "round-robin" /\ Len(API_KEYS) = 2
    /\ Len(SelectSeq(rotLog, IsNext)) = 3
    /\ \E i \in 1..Len(rotLog) : IsError(rotLog[i]) /\ i < Len(rotLog)

\* C14: under the sequential policy every key issued is the one at index
\* (number of errors marked before it) mod n: the same key until an error is
\* marked, the following one after each error, and no move otherwise
C14_SequentialCursor ==
    KEY_MODE = "sequential" =>
        \A i \in 1..Len(rotLog) :
            IsNext(rotLog[i]) =>
                rotLog[i].key =
                    API_KEYS[(Len(SelectSeq(SubSeq(rotLog, 1, i - 1), IsError))
                                % Len(API_KEYS)) + 1]

C14_Witness ==
    /\ KEY_MODE = "sequential" /\ Len(API_KEYS) >= 2
    /\ \E i \in 3..(Len(rotLog) - 1) :
          /\ IsNext(rotLog[i - 2]) /\ IsNext(rotLog[i - 1]) /\ IsError(rotLog[i])
          /\ IsNext(rotLog[i + 1])
          /\ rotLog[i - 2].key = rotLog[i - 1].key
          /\ rotLog[i + 1].key # rotLog[i - 1].key

\* C26: under the sequential policy with at least two credentials, the
\* first key issued after an error was marked against a credential is
\* another credential
C26_FailedKeyNotReissued ==
    (KEY_MODE = "sequential" /\ Len(API_KEYS) >= 2) =>
        \A j \in 1..Len(rotLog) : \A i \in (j + 1)..Len(rotLog) :
            (/\ IsError(rotLog[j]) /\ IsNext(rotLog[i])
             /\ \A m \in (j + 1)..(i - 1) : ~IsNext(rotLog[m]))
            => rotLog[i].key # rotLog[j].key

\* C30: the error counter of every credential is the number of failed
\* upstream calls that were issued with it
C30_ErrorsCounted ==
    \A i \in 1..Len(API_KEYS) :
        MapGet(keyErrorCount, API_KEYS[i]) = MapGet(keyFailedCalls, API_KEYS[i])

\* the number of entries of log with operation op and credential key
CountOps(log, op, key) ==
    LET Same(e) == e.op = op /\ e.key = key
    IN Len(SelectSeq(log, Same))

\* C31: the usage counter of every credential is the number of times
\* getNextApiKey returned it and its error counter the number of times
\* markKeyError was called with it, and no other credential has a counter:
\* the sums are the numbers of calls and a call changes the counter of its
\* credential only.  Under round-robin and random the cursor depends on the
\* number of keys issued alone, so that markKeyError leaves it where it is
C31_CountersAndFrame ==
    /\ \A i \in 1..Len(API_KEYS) :
          /\ MapGet(keyUsageCount, API_KEYS[i]) = CountOps(rotLog, "next", API_KEYS[i])
          /\ MapGet(keyErrorCount, API_KEYS[i]) = CountOps(rotLog, "error", API_KEYS[i])
    /\ DOMAIN keyUsageCount \subseteq {API_KEYS[i] : i \in 1..Len(API_KEYS)}
    /\ DOMAIN keyErrorCount \subseteq {API_KEYS[i] : i \in 1..Len(API_KEYS)}
    /\ KEY_MODE = "random" => currentKeyIndex = 0
    /\ KEY_MODE = "round-robin" =>
          currentKeyIndex = IF Len(API_KEYS) = 1 THEN 0
                            ELSE Len(SelectSeq(rotLog, IsNext)) % Len(API_KEYS)

\* a credential issued twice and an error marked, under the random policy
C31_Witness ==
    /\ KEY_MODE = "random" /\ Len(API_KEYS) >= 2
    /\ \E i \in 1..Len(API_KEYS) : MapGet(keyUsageCount, API_KEYS[i]) >= 2
    /\ \E j \in 1..Len(rotLog) : IsError(rotLog[j])

\* C15: the disabled flag is set exactly when the failure count has reached
\* the threshold, and the count is the number of failed you_agent upstream
\* calls since the last reset
C15_BreakerCounts ==
    /\ youAgentDisabled <=> youAgentFailureCount >= YOU_AGENT_FAILURE_THRESHOLD
    /\ youAgentFailureCount = agentFailedCalls

\* C16: the failure count never decreases and the disabled flag is never
\* cleared except by the reset operation
C16_OnlyResetLowers ==
    [][(youAgentFailureCount' < youAgentFailureCount
          \/ (youAgentDisabled /\ ~youAgentDisabled'))
       => ResetYouAgentFailures]_vars

C16_Witness ==
    /\ youAgentDisabled /\ youAgentFailureCount >= YOU_AGENT_FAILURE_THRESHOLD
    /\ toolCall.name = "you_agent" /\ toolCall.count = 1 /\ toolCall.phase = "done"
    /\ toolCall.output.success

\* C17: the aggregate of a fan-out exists only once every call has settled,
\* counts the calls, the successes and the failures, and when results are
\* requested lists the payload of every successful call
C17_FanOutAggregate ==
    toolCall.output.kind = "aggregate" =>
        LET calls == toolCall.calls
            okCalls == {i \in 1..Len(calls) : calls[i].status = "ok"}
            out == toolCall.output
        IN /\ \A i \in 1..Len(calls) : calls[i].status # "pending"
           /\ out.total_calls = Len(calls) /\ Len(calls) = toolCall.count
           /\ out.successful = Cardinality(okCalls)
           /\ out.failed = Len(calls) - out.successful
           /\ toolCall.show_results =>
                \A i \in okCalls :
                   \E j \in 1..Len(out.results) :
                      /\ out.results[j].success /\ out.results[j].index = i
                      /\ out.results[j].result = calls[i].result

C17_Witness ==
    /\ toolCall.output.kind = "aggregate" /\ toolCall.show_results
    /\ toolCall.count = 3
    /\ toolCall.output.successful = 2 /\ toolCall.output.failed = 1

(***************************************************************************)
(* Claims about the retention sweep, reads and appends                     *)
(***************************************************************************)
MemUpdatedAt(store) == [k \in DOMAIN store |-> store[k].updatedAt]
SqlUpdatedAt(d) == [k \in DOMAIN d.conversations |-> d.conversations[k].updated_at]

\* what a sweep at time t that returned `deleted` must have done to the
\* map id -> updatedAt
SweepPost(before, after, t, deleted) ==
    /\ DOMAIN after \subseteq DOMAIN before
    /\ \A k \in DOMAIN after : after[k] = before[k]
    /\ \A k \in DOMAIN after : ~(after[k] < t - CONVERSATION_TTL)
    /\ Cardinality(DOMAIN after) <= MAX_CONVERSATIONS
    /\ \A r \in (DOMAIN before) \ (DOMAIN after) :
          \/ before[r] < t - CONVERSATION_TTL
          \/ \A k \in DOMAIN after : before[r] <= after[k]
    /\ deleted = Cardinality(DOMAIN before) - Cardinality(DOMAIN after)

LastOp == history[Len(history)]

\* C18: after a sweep no conversation is older than the TTL, at most
\* MAX_CONVERSATIONS remain, the capacity phase removed only conversations no
\* newer than every survivor, and the returned number is the number removed
C18_SweepPostconditions ==
    [][(Len(history') = Len(history) + 1 /\ LastOp'.name = "sweep") =>
          /\ SweepPost(MemUpdatedAt(memoryStore), MemUpdatedAt(memoryStore'), now,
                       LastOp'.deleted.mem)
          /\ SweepPost(SqlUpdatedAt(db), SqlUpdatedAt(db'), now,
                       LastOp'.deleted.sql)]_vars

C18_Witness ==
    /\ history # <<>> /\ LastOp.name = "sweep"
    /\ LastOp.deleted.mem = 2 /\ LastOp.deleted.sql = 2
    /\ ConvName(1) \notin DOMAIN memoryStore
    /\ Cardinality(DOMAIN memoryStore) = MAX_CONVERSATIONS
    /\ Cardinality(DOMAIN db.conversations) = MAX_CONVERSATIONS

\* C19: a get of an existing conversation sets its updatedAt to the time of
\* the read on both backends, and a sweep keeps every conversation that was
\* read less than one TTL earlier (and not deleted since)
C19_ReadRefreshes ==
    [][/\ (Len(history') = Len(history) + 1 /\ LastOp'.name = "get"
              /\ LastOp'.found) =>
           /\ memoryStore'[LastOp'.id].updatedAt = now
           /\ db'.conversations[LastOp'.id].updated_at = now
       /\ (Len(history') = Len(history) + 1 /\ LastOp'.name = "sweep") =>
           \A i \in 1..Len(history) :
              (/\ history[i].name = "get" /\ history[i].found
               /\ now - history[i].at < CONVERSATION_TTL
               /\ \A j \in (i + 1)..Len(history) :
                     ~(history[j].name = "delete" /\ history[j].id = history[i].id))
              => /\ MemHas(memoryStore', history[i].id)
                 /\ SqlHas(db', history[i].id)]_vars

C19_Witness ==
    /\ Len(history) = 3
    /\ history[1].name = "clock"
    /\ history[2].name = "get" /\ history[2].found
    /\ history[3].name = "sweep"
    /\ MemHas(memoryStore, history[2].id) /\ SqlHas(db, history[2].id)

\* C20: right after append(id, role, content) the turn sequence get(id)
\* returns ends with a turn of that role and content, on both backends
C20_AppendThenGet ==
    (history # <<>> /\ LastOp.name = "append") =>
        LET mem == MemMessages(LastOp.id)
            sql == DbMessages(LastOp.id)
        IN /\ mem # <<>> /\ sql # <<>>
           /\ mem[Len(mem)].role = LastOp.role
           /\ mem[Len(mem)].content = LastOp.content
           /\ sql[Len(sql)].role = LastOp.role
           /\ sql[Len(sql)].content = LastOp.content

C20_Witness ==
    /\ Len(history) = 1 /\ LastOp.name = "append" /\ LastOp.role = "assistant"
    /\ Len(MemMessages(LastOp.id)) = MAX_MESSAGES_PER_CONVERSATION
    /\ Len(DbMessages(LastOp.id)) = MAX_MESSAGES_PER_CONVERSATION - 1

(***************************************************************************)
(* The sqlite backend with its save timer: store operations, the passage   *)
(* of time, and the timer callback.  A timer that is due runs before the   *)
(* next operation and before time passes further.                          *)
(***************************************************************************)
MaxWindows == 2   \* the clock stays within MaxWindows debounce intervals

\* pauses between operations: shorter than the debounce interval, and equal to it
SaveDelays == {600, SAVE_DEBOUNCE}

NoTimerDue == \A x \in timers : now < x.due

\* d milliseconds pass without any store operation
TimePasses(d) ==
    /\ d > 0
    /\ now + d <= MaxWindows * SAVE_DEBOUNCE
    /\ \A x \in timers : now + d <= x.due
    /\ now' = now + d
    /\ UNCHANGED <<memoryStore, db, opCount, history, saveVars>>
    /\ UNCHANGED <<streamVars, mcpVars, reqVars, frontVars>>

DurableInit == StoreInit

DurableNext ==
    \/ NoTimerDue /\ \E id \in ConvIds : Create(id)
    \/ NoTimerDue /\ \E id \in ConvIds, content \in NewContents :
                        AppendTurn(id, "user", content)
    \/ NoTimerDue /\ \E id \in ConvIds : Get(id)
    \/ NoTimerDue /\ \E id \in ConvIds : Delete(id)
    \/ \E d \in SaveDelays \cup {x.due - now : x \in timers} : TimePasses(d)
    \/ SaveFires

DurableSpec == DurableInit /\ [][DurableNext]_vars

\* C21: every database mutation made more than one debounce interval ago
\* has been flushed to the database file (looked at when no timer is due,
\* that is, not in the instant before a flush runs)
C21_FlushedWithinInterval ==
    NoTimerDue => \A t \in pendingWrites : now - t <= SAVE_DEBOUNCE

MaxRequests == 2   \* requests in flight against the conversation

ReqIds == 1..MaxRequests

\* the request bodies: a repeated question, a new one, one with a system turn
ConcMessages ==
    { <<[role |-> "user", content |-> <<"x">>]>>,
      <<[role |-> "user", content |-> <<"y">>]>>,
      <<[role |-> "system", content |-> <<"s">>], [role |-> "user", content |-> <<"y">>]>> }

\* the assistant content of the upstream answer to request i; empty when
\* the answer carries no content
Answers(i) == { <<"r" \o ToString(i)>>, <<>> }

\* fullMessages of the route, memory backend
MemFullMessages(store, id, messages) ==
    MergeHistory(IF MemHas(store, id) THEN store[id].messages ELSE <<>>, messages)

\* fullMessages of the route, sqlite backend
SqlFullMessages(d, id, messages) ==
    MergeHistory(IF SqlHas(d, id) THEN SqlMessages(d, id) ELSE <<>>, messages)

\* the turn the synchronous part appends: the last user turn of fullMessages
UserTurnOf(fullMessages) ==
    LET lastUserMsg == FindLast(fullMessages, IsUser)
    IN IF lastUserMsg # <<>>
       THEN <<[role |-> "user", content |-> lastUserMsg[1].content]>>
       ELSE <<>>

\* the response handler writing back the history it was handed plus the
\* answer, instead of appending
MemStoreAnswerFromInput(store, id, inputMessages, content, t) ==
    IF content # <<>>
    THEN MemSet(store, id,
                [messages |-> [i \in 1..Len(inputMessages) |->
                                  [role |-> inputMessages[i].role,
                                   content |-> inputMessages[i].content,
                                   timestamp |-> t]]
                              \o <<[role |-> "assistant", content |-> content,
                                    timestamp |-> t]>>,
                 createdAt |-> t, updatedAt |-> t])
    ELSE store

\* handleNonStreamingResponse / handleStreamingResponse, memory backend:
\* `if (assistantContent && conversationId) addMessageToConversation(...)`
MemStoreAnswer(store, id, inputMessages, content, t) ==
    IF content # <<>> THEN MemAddMessage(store, id, "assistant", content, t) ELSE store

\* the same, sqlite backend
SqlStoreAnswer(d, id, inputMessages, content, t) ==
    IF content # <<>> THEN SqlAddMessage(d, id, "assistant", content, t) ELSE d

\* the route up to `await callYouApi`
ReqStart(i) ==
    /\ requests[i].pc = "new"
    /\ LET messages == requests[i].messages
           inMem == MemFullMessages(memoryStore, StreamConv, messages)
           inSql == SqlFullMessages(db, StreamConv, messages)
       IN /\ memoryStore' = MemChatRequest(memoryStore, StreamConv, messages, now)
          /\ db' = SqlChatRequest(db, StreamConv, messages, now)
          /\ SaveIf(SqlChatRequestSaves(db, StreamConv, messages))
          /\ requests' = [requests EXCEPT ![i] =
                 [@ EXCEPT !.pc = "awaiting",
                           !.inputMem = inMem, !.inputSql = inSql,
                           !.appendedMem = UserTurnOf(inMem),
                           !.appendedSql = UserTurnOf(inSql)]]
    /\ now' = now + 1
    /\ UNCHANGED <<opCount, history>>
    /\ UNCHANGED <<streamVars, mcpVars, frontVars>>

\* the upstream call of request i resolves and its response handler runs
ReqFinish(i) ==
    /\ requests[i].pc = "awaiting"
    /\ \E content \in Answers(i) :
          /\ memoryStore' = MemStoreAnswer(memoryStore, StreamConv,
                                           requests[i].inputMem, content, now)
          /\ db' = SqlStoreAnswer(db, StreamConv, requests[i].inputSql, content, now)
          /\ SaveIf(content # <<>>)
          /\ LET turn == IF content # <<>>
                         THEN <<[role |-> "assistant", content |-> content]>>
                         ELSE <<>>
             IN requests' = [requests EXCEPT ![i] =
                    [@ EXCEPT !.pc = "done",
                              !.appendedMem = @ \o turn,
                              !.appendedSql = @ \o turn]]
    /\ now' = now + 1
    /\ UNCHANGED <<opCount, history>>
    /\ UNCHANGED <<streamVars, mcpVars, frontVars>>

\* the upstream call of request i rejects: the catch block answers 500 or
\* 408 and stores nothing
ReqFails(i) ==
    /\ requests[i].pc = "awaiting"
    /\ requests' = [requests EXCEPT ![i].pc = "done"]
    /\ UNCHANGED <<storeVars, streamVars, mcpVars, frontVars>>

\* the conversation is new, or holds one earlier exchange
ConcurrentInit ==
    /\ StreamIdle
    /\ McpIdle
    /\ FrontIdle
    /\ \/ /\ memoryStore = EmptyMap
          /\ db = [conversations |-> EmptyMap, messages |-> <<>>, seq |-> 0]
       \/ /\ memoryStore = MemAddMessage(MemAddMessage(EmptyMap, StreamConv, "user", <<"x">>, 0),
                                          StreamConv, "assistant", <<"a">>, 0)
          /\ db = SqlAddMessage(SqlAddMessage([conversations |-> EmptyMap,
                                               messages |-> <<>>, seq |-> 0],
                                              StreamConv, "user", <<"x">>, 0),
                                StreamConv, "assistant", <<"a">>, 0)
    /\ now = 1 /\ opCount = 0 /\ history = <<>>
    /\ SaveSettled
    /\ \E msgs \in [ReqIds -> ConcMessages] :
          requests = [i \in ReqIds |->
                         [pc |-> "new", messages |-> msgs[i],
                          inputMem |-> <<>>, inputSql |-> <<>>,
                          appendedMem |-> <<>>, appendedSql |-> <<>>]]

ConcurrentNext ==
    \/ \E i \in ReqIds : ReqStart(i)
    \/ \E i \in ReqIds : ReqFinish(i)
    \/ \E i \in ReqIds : ReqFails(i)

ConcurrentSpec == ConcurrentInit /\ [][ConcurrentNext]_vars

\* the number of turns of msgs with the role and content of turn
CountTurn(msgs, turn) ==
    LET Same(m) == m.role = turn.role /\ m.content = turn.content
    IN Len(SelectSeq(msgs, Same))

RECURSIVE AppendedBy(_, _)
\* the turns the requests 1..n appended, memory (mem = TRUE) or sqlite
AppendedBy(n, mem) ==
    IF n = 0 THEN <<>>
    ELSE AppendedBy(n - 1, mem)
         \o (IF mem THEN requests[n].appendedMem ELSE requests[n].appendedSql)

AllDone == requests # <<>> /\ \A i \in ReqIds : requests[i].pc = "done"

\* C22: once all the concurrent requests have completed, with the
\* conversation below the turn cap, the stored turns of either backend hold
\* every turn the requests appended, as many times as it was appended
C22_NoAppendLost ==
    AllDone =>
        /\ Len(MemMessages(StreamConv)) < MAX_MESSAGES_PER_CONVERSATION =>
              \A k \in 1..Len(AppendedBy(MaxRequests, TRUE)) :
                 CountTurn(MemMessages(StreamConv), AppendedBy(MaxRequests, TRUE)[k])
                   >= CountTurn(AppendedBy(MaxRequests, TRUE), AppendedBy(MaxRequests, TRUE)[k])
        /\ Len(DbMessages(StreamConv)) < MAX_MESSAGES_PER_CONVERSATION =>
              \A k \in 1..Len(AppendedBy(MaxRequests, FALSE)) :
                 CountTurn(DbMessages(StreamConv), AppendedBy(MaxRequests, FALSE)[k])
                   >= CountTurn(AppendedBy(MaxRequests, FALSE), AppendedBy(MaxRequests, FALSE)[k])

\* two requests that both started before either finished, each having
\* appended its user turn and its answer
C22_Witness ==
    /\ AllDone
    /\ \A i \in ReqIds : Len(requests[i].appendedMem) = 2 /\ Len(requests[i].appendedSql) = 2
    /\ \E j \in 1..(Len(MemMessages(StreamConv)) - 1) :
          /\ MemMessages(StreamConv)[j].role = "user"
          /\ MemMessages(StreamConv)[j + 1].role = "user"

(***************************************************************************)
(* The you_key_status tool.  A credential is a sequence of characters; the *)
(* character at position i of a credential is written i, so that a preview *)
(* tells which positions it shows, and the dots of the preview are 0.      *)
(***************************************************************************)
MaxKeyLen == 13   \* length of the longest configured credential

\* String.prototype.substring(a, b): both ends clamped to 0..length, and
\* swapped when a > b
JsSubstring(s, a, b) ==
    LET ca == Max(0, Min(a, Len(s)))
        cb == Max(0, Min(b, Len(s)))
    IN SubSeq(s, Min(ca, cb) + 1, Max(ca, cb))

Dots == <<0, 0, 0>>

\* `${key.substring(0, 8)}...${key.substring(key.length - 4)}`
KeyPreview(key) ==
    JsSubstring(key, 0, 8) \o Dots \o JsSubstring(key, Len(key) - 4, Len(key))

Credential(n) == [i \in 1..n |-> i]

\* getKeyStatus
GetKeyStatus ==
    /\ toolCall.phase \in {"idle", "done"}
    /\ toolCall' = [NoToolCall EXCEPT
          !.name = "you_key_status", !.phase = "done",
          !.output = [kind |-> "key_status",
                      total_keys |-> Len(API_KEYS),
                      key_mode |-> KEY_MODE,
                      current_key_index |-> currentKeyIndex,
                      keys |-> [i \in 1..Len(API_KEYS) |->
                                  [index |-> i - 1,
                                   key_preview |-> KeyPreview(API_KEYS[i]),
                                   usage_count |-> MapGet(keyUsageCount, API_KEYS[i]),
                                   error_count |-> MapGet(keyErrorCount, API_KEYS[i]),
                                   is_current |-> (i - 1 = currentKeyIndex)]]]]
    /\ UNCHANGED <<KEY_MODE, API_KEYS, YOU_AGENT_FAILURE_THRESHOLD, currentKeyIndex,
                   keyUsageCount, keyErrorCount, youAgentFailureCount,
                   youAgentDisabled, upstreamCalls, rotLog, agentFailedCalls,
                   keyFailedCalls>>
    /\ UNCHANGED <<storeVars, streamVars, reqVars, frontVars>>

\* a tool issues an upstream call: getNextApiKey, and markKeyError when the
\* call fails
KeyIssued(ok) ==
    /\ upstreamCalls < MaxUpstream
    /\ \E r \in getNextApiKey(KEY_MODE, API_KEYS, currentKeyIndex) :
          /\ keyUsageCount' = Bump(keyUsageCount, r.key)
          /\ IF ok
             THEN /\ currentKeyIndex' = r.currentKeyIndex
                  /\ UNCHANGED keyErrorCount
             ELSE /\ currentKeyIndex' = markKeyError(KEY_MODE, API_KEYS, r.currentKeyIndex)
                  /\ keyErrorCount' = Bump(keyErrorCount, r.key)
          /\ keyFailedCalls' = IF ok THEN keyFailedCalls ELSE Bump(keyFailedCalls, r.key)
    /\ upstreamCalls' = upstreamCalls + 1
    /\ UNCHANGED <<KEY_MODE, API_KEYS, YOU_AGENT_FAILURE_THRESHOLD, youAgentFailureCount,
                   youAgentDisabled, toolCall, rotLog, agentFailedCalls>>
    /\ UNCHANGED <<storeVars, streamVars, reqVars, frontVars>>

KeyStatusInit ==
    /\ StreamIdle
    /\ memoryStore = EmptyMap
    /\ db = [conversations |-> EmptyMap, messages |-> <<>>, seq |-> 0]
    /\ now = 0 /\ opCount = 0 /\ history = <<>>
    /\ SaveSettled
    /\ NoRequests
    /\ FrontIdle
    /\ KEY_MODE \in {"round-robin", "sequential"}
    /\ YOU_AGENT_FAILURE_THRESHOLD = 3
    /\ \E n \in 1..MaxKeys : \E lens \in [1..n -> 1..MaxKeyLen] :
          API_KEYS = [i \in 1..n |-> Credential(lens[i])]
    /\ currentKeyIndex = 0
    /\ keyUsageCount = EmptyMap /\ keyErrorCount = EmptyMap
    /\ youAgentFailureCount = 0 /\ youAgentDisabled = FALSE
    /\ toolCall = NoToolCall /\ upstreamCalls = 0
    /\ rotLog = <<>> /\ agentFailedCalls = 0 /\ keyFailedCalls = EmptyMap

KeyStatusNext ==
    \/ GetKeyStatus
    \/ \E ok \in BOOLEAN : KeyIssued(ok)

KeyStatusSpec == KeyStatusInit /\ [][KeyStatusNext]_vars

\* C23: the preview of every credential is at most its first 8 characters,
\* the dots and at most its last 4 characters, and the characters shown are
\* fewer than the credential has
C23_PreviewWithholds ==
    toolCall.output.kind = "key_status" =>
        \A i \in 1..Len(API_KEYS) :
            LET key == API_KEYS[i]
                preview == toolCall.output.keys[i].key_preview
            IN \E h \in 0..Min(8, Len(key)), t \in 0..Min(4, Len(key)) :
                  /\ preview = SubSeq(key, 1, h) \o Dots
                                  \o SubSeq(key, Len(key) - t + 1, Len(key))
                  /\ h + t < Len(key)

(***************************************************************************)
(* Prompt assembly: mapOpenAIToYouParams, buildConversationInput and       *)
(* mapAnthropicToYouParams.  A string is a sequence of pieces; the role    *)
(* prefixes and the block labels are pieces of their own, so that a        *)
(* content may itself begin with "User: ".                                 *)
(***************************************************************************)
MaxTurns == 3      \* messages of a request handed to a prompt mapper

StringContent(text) == [kind |-> "string", text |-> text]
ArrayContent(parts) == [kind |-> "array", parts |-> parts]

\* msg.content.filter(c => c.type === 'text').map(c => c.text).join('\n')
RECURSIVE JoinWith(_, _)
JoinWith(strings, sep) ==
    IF strings = <<>> THEN <<>>
    ELSE IF Len(strings) = 1 THEN strings[1]
    ELSE strings[1] \o <<sep>> \o JoinWith(Tail(strings), sep)

TextsOf(parts) ==
    LET IsTextPart(c) == c.type = "text"
        kept == SelectSeq(parts, IsTextPart)
    IN [i \in 1..Len(kept) |-> kept[i].text]

\* typeof msg.content === 'string' ? msg.content : (text parts joined)
AnthropicContent(content) ==
    IF content.kind = "string" THEN content.text
    ELSE JoinWith(TextsOf(content.parts), "\n")

\* `User: ${msg.content}` / `Assistant: ${msg.content}` of every user and
\* assistant message, in order
ConversationHistoryOf(messages, Text(_)) ==
    LET IsTurn(m) == m.role \in {"user", "assistant"}
        turns == SelectSeq(messages, IsTurn)
    IN [i \in 1..Len(turns) |->
            <<IF turns[i].role = "user" THEN "User: " ELSE "Assistant: ">>
              \o Text(turns[i].content)]

\* entry.replace(/^User: /, '')
StripUserPrefix(entry) ==
    IF entry # <<>> /\ entry[1] = "User: " THEN Tail(entry) ELSE entry

\* the part of the three mappers after the system block
HistoryAndCurrent(conversationHistory) ==
    IF Len(conversationHistory) > 1
    THEN <<"[Conversation History]\n">>
           \o JoinWith(SubSeq(conversationHistory, 1, Len(conversationHistory) - 1), "\n\n")
           \o <<"\n\n">> \o <<"[Current Message]\n">>
           \o StripUserPrefix(conversationHistory[Len(conversationHistory)])
    ELSE IF Len(conversationHistory) = 1 THEN StripUserPrefix(conversationHistory[1])
    ELSE <<>>

\* if (systemPrompt) input = `[System Instructions]\n${systemPrompt}\n\n`
SystemBlock(systemPrompt) ==
    IF systemPrompt # <<>>
    THEN <<"[System Instructions]\n">> \o systemPrompt \o <<"\n\n">>
    ELSE <<>>

\* systemPrompt of the OpenAI mappers: the content of the last system message
OpenAISystemPrompt(messages) ==
    LET sys == SelectSeq(messages, IsSystem)
    IN IF sys = <<>> THEN <<>> ELSE sys[Len(sys)].content.text

StringText(content) == content.text

\* mapOpenAIToYouParams and buildConversationInput assemble the same input
buildConversationInput(messages) ==
    SystemBlock(OpenAISystemPrompt(messages))
      \o HistoryAndCurrent(ConversationHistoryOf(messages, StringText))

mapOpenAIToYouParams(messages) ==
    SystemBlock(OpenAISystemPrompt(messages))
      \o HistoryAndCurrent(ConversationHistoryOf(messages, StringText))

mapAnthropicToYouParams(messages, system) ==
    SystemBlock(system)
      \o HistoryAndCurrent(ConversationHistoryOf(messages, AnthropicContent))

PromptRoles == {"system", "user", "assistant", "tool"}
PromptTexts == {<<"x">>, <<"User: ", "y">>}
OpenAIMessages == [role : PromptRoles, content : {StringContent(t) : t \in PromptTexts}]
AnthropicMessages ==
    [role : {"user", "assistant", "system"},
     content : {StringContent(<<"x">>), StringContent(<<"User: ", "y">>),
                ArrayContent(<<[type |-> "text", text |-> <<"x">>],
                               [type |-> "image", text |-> <<"i">>],
                               [type |-> "text", text |-> <<"y">>]>>)}]

PromptInit ==
    /\ StreamIdle /\ McpIdle /\ NoRequests /\ AuthIdle /\ ServerIdle
    /\ memoryStore = EmptyMap
    /\ db = [conversations |-> EmptyMap, messages |-> <<>>, seq |-> 0]
    /\ now = 1 /\ opCount = 0 /\ history = <<>>
    /\ SaveSettled
    /\ input = <<>>
    /\ \/ \E api \in {"mapOpenAIToYouParams", "buildConversationInput"},
             messages \in SeqsUpTo(OpenAIMessages, MaxTurns) :
             promptReq = [api |-> api, messages |-> messages, system |-> <<>>, pc |-> "call"]
       \/ \E messages \in SeqsUpTo(AnthropicMessages, MaxTurns), system \in {<<>>, <<"s">>} :
             promptReq = [api |-> "mapAnthropicToYouParams", messages |-> messages,
                          system |-> system, pc |-> "call"]

MapOpenAI ==
    /\ promptReq.pc = "call" /\ promptReq.api = "mapOpenAIToYouParams"
    /\ input' = mapOpenAIToYouParams(promptReq.messages)
    /\ promptReq' = [promptReq EXCEPT !.pc = "done"]
    /\ UNCHANGED <<storeVars, streamVars, mcpVars, reqVars, authVars, serverVars>>

BuildConversationInput ==
    /\ promptReq.pc = "call" /\ promptReq.api = "buildConversationInput"
    /\ input' = buildConversationInput(promptReq.messages)
    /\ promptReq' = [promptReq EXCEPT !.pc = "done"]
    /\ UNCHANGED <<storeVars, streamVars, mcpVars, reqVars, authVars, serverVars>>

MapAnthropic ==
    /\ promptReq.pc = "call" /\ promptReq.api = "mapAnthropicToYouParams"
    /\ input' = mapAnthropicToYouParams(promptReq.messages, promptReq.system)
    /\ promptReq' = [promptReq EXCEPT !.pc = "done"]
    /\ UNCHANGED <<storeVars, streamVars, mcpVars, reqVars, authVars, serverVars>>

PromptNext == MapOpenAI \/ BuildConversationInput \/ MapAnthropic

PromptSpec == PromptInit /\ [][PromptNext]_vars

\* what the request holds: its system instruction and its user/assistant
\* turns as <<role, content>>
PromptSystem ==
    IF promptReq.api = "mapAnthropicToYouParams" THEN promptReq.system
    ELSE OpenAISystemPrompt(promptReq.messages)

PromptTurns ==
    LET IsTurn(m) == m.role \in {"user", "assistant"}
        turns == SelectSeq(promptReq.messages, IsTurn)
    IN [i \in 1..Len(turns) |->
           [role |-> turns[i].role, content |-> AnthropicContent(turns[i].content)]]

RenderedTurn(t) ==
    <<IF t.role = "user" THEN "User: " ELSE "Assistant: ">> \o t.content

ExpectedPrompt ==
    LET turns == PromptTurns
        n == Len(turns)
    IN (IF PromptSystem # <<>>
        THEN <<"[System Instructions]\n">> \o PromptSystem \o <<"\n\n">> ELSE <<>>)
       \o (IF n >= 2
           THEN <<"[Conversation History]\n">>
                  \o JoinWith([i \in 1..(n - 1) |-> RenderedTurn(turns[i])], "\n\n")
                  \o <<"\n\n", "[Current Message]\n">> \o turns[n].content
           ELSE IF n = 1 THEN turns[1].content
           ELSE <<>>)

(***************************************************************************)
(* The HTTP server's routes and the authenticate middleware.  A handler is *)
(* represented by what it touches: the conversation store and the upstream *)
(* API.  A header is a sequence of pieces, <<>> when absent.               *)
(***************************************************************************)
MaxHttp == 2       \* HTTP requests served per behaviour

\* authHeader.startsWith('Bearer ') and authHeader.slice(7)
BEARER == "Bearer "
HasBearer(authHeader) == authHeader # <<>> /\ authHeader[1] = BEARER
BearerToken(authHeader) == Tail(authHeader)

InTokens(tokens, token) == \E i \in 1..Len(tokens) : <<tokens[i]>> = token

\* the status authenticate answers with, 0 when it calls next()
authenticate(tokens, authHeader) ==
    IF ~HasBearer(authHeader) THEN 401
    ELSE IF Len(tokens) > 0 /\ ~InTokens(tokens, BearerToken(authHeader)) THEN 401
    ELSE 0

\* the middleware chain of a path: /v1/messages is registered without
\* authenticate
RouteGuard(tokens, authHeader, path) ==
    IF path = "POST /v1/messages" THEN 0 ELSE authenticate(tokens, authHeader)

AuthHeaders == {<<>>, <<"Basic ", "t2">>, <<BEARER, "t2">>, <<BEARER, "bad">>}
TokenConfigs == {<<>>, <<"t1", "t2">>}

\* one request served: the guard, then the handler when the guard passes
Serve(path, authHeader, ready, store, up) ==
    LET refused == RouteGuard(ACCESS_TOKENS, authHeader, path)
        ran == refused = 0 /\ ready
    IN /\ Len(responses) < MaxHttp
       /\ responses' = Append(responses,
             [route |-> path, authorization |-> authHeader,
              status |-> IF refused # 0 THEN refused ELSE IF ready THEN 200 ELSE 500,
              store |-> IF ran THEN store ELSE "none",
              upstream |-> ran /\ up])
       /\ UNCHANGED <<ACCESS_TOKENS, storeVars, streamVars, mcpVars, reqVars,
                      promptVars, serverVars>>

\* POST /v1/chat/completions: 500 without YDC_API_KEY, else the store and the upstream
HttpChatCompletions(authHeader, ready) ==
    Serve("POST /v1/chat/completions", authHeader, ready, "write", TRUE)

\* POST /v1/messages: 400 on a bad body, else getConversation,
\* createConversation, addMessageToConversation and the upstream call
HttpMessages(authHeader, ready) ==
    Serve("POST /v1/messages", authHeader, ready, "write", TRUE)

HttpModels(path, authHeader) ==
    /\ path \in {"GET /v1/models", "GET /v1/versions"}
    /\ Serve(path, authHeader, TRUE, "none", FALSE)

HttpConversationsRead(path, authHeader) ==
    /\ path \in {"GET /v1/conversations", "GET /v1/conversations/:id"}
    /\ Serve(path, authHeader, TRUE, "read", FALSE)

HttpConversationsWrite(path, authHeader) ==
    /\ path \in {"POST /v1/conversations", "DELETE /v1/conversations/:id",
                  "DELETE /v1/conversations"}
    /\ Serve(path, authHeader, TRUE, "write", FALSE)

AuthInit ==
    /\ StreamIdle /\ McpIdle /\ NoRequests /\ PromptIdle /\ ServerIdle
    /\ memoryStore = EmptyMap
    /\ db = [conversations |-> EmptyMap, messages |-> <<>>, seq |-> 0]
    /\ now = 1 /\ opCount = 0 /\ history = <<>>
    /\ SaveSettled
    /\ ACCESS_TOKENS \in TokenConfigs
    /\ responses = <<>>

AuthNext ==
    \E authHeader \in AuthHeaders :
        \/ \E ready \in BOOLEAN : HttpChatCompletions(authHeader, ready)
        \/ \E ready \in BOOLEAN : HttpMessages(authHeader, ready)
        \/ \E path \in {"GET /v1/models", "GET /v1/versions"} : HttpModels(path, authHeader)
        \/ \E path \in {"GET /v1/conversations", "GET /v1/conversations/:id"} :
              HttpConversationsRead(path, authHeader)
        \/ \E path \in {"POST /v1/conversations", "DELETE /v1/conversations/:id",
                         "DELETE /v1/conversations"} :
              HttpConversationsWrite(path, authHeader)

AuthSpec == AuthInit /\ [][AuthNext]_vars

\* the request carries "Bearer <token>" with a configured token
Authorized(authHeader) ==
    /\ Len(authHeader) = 2 /\ authHeader[1] = BEARER
    /\ \E i \in 1..Len(ACCESS_TOKENS) : ACCESS_TOKENS[i] = authHeader[2]

\* C34: with access tokens configured, a request that does not carry a
\* configured Bearer token never reaches a handler that reads or mutates the
\* conversation store or calls the upstream API, on any /v1 route
C34_NoHandlerWithoutToken ==
    Len(ACCESS_TOKENS) > 0 =>
        \A i \in 1..Len(responses) :
            (responses[i].store # "none" \/ responses[i].upstream)
                => Authorized(responses[i].authorization)

\* the same on every route but /v1/messages
C34_GuardedRoutes ==
    Len(ACCESS_TOKENS) > 0 =>
        \A i \in 1..Len(responses) :
            (responses[i].route # "POST /v1/messages"
               /\ (responses[i].store # "none" \/ responses[i].upstream))
                => Authorized(responses[i].authorization)

\* with tokens configured, a guarded route refused a request without a
\* configured token and served one with it
C34_RefusedAndServed ==
    /\ Len(ACCESS_TOKENS) > 0
    /\ \E i, j \in 1..Len(responses) :
          /\ responses[i].route = "POST /v1/chat/completions" /\ responses[i].status = 401
          /\ responses[j].route = "POST /v1/chat/completions" /\ responses[j].store = "write"

(***************************************************************************)
(* One chat request on an existing conversation, from its first statement  *)
(* to its answer or its failure: POST /v1/chat/completions (non-streaming) *)
(* on both backends of the HTTP server, and the you_chat and you_advanced  *)
(* tools of the MCP server on its own Map (memoryStore here; the database  *)
(* is not part of that server).                                            *)
(***************************************************************************)
MaxStored == 4     \* turns the conversation holds before the request

\* the stored conversations: user and assistant turns in alternation
StoredTurn(i, c) ==
    IF i % 2 = 1 THEN [role |-> "user", content |-> <<c[(i + 1) \div 2]>>]
    ELSE [role |-> "assistant", content |-> <<"r">>]

StoredConversations ==
    { [i \in 1..n |-> StoredTurn(i, c)] :
        n \in 1..MaxStored, c \in [1..((MaxStored + 1) \div 2) -> {"a", "b"}] }

\* the messages of a request, ending with the user message m
ChatRequests ==
    UNION { { <<[role |-> "user", content |-> <<m>>]>>,
              <<[role |-> "system", content |-> <<"s">>], [role |-> "user", content |-> <<m>>]>>,
              <<[role |-> "user", content |-> <<"c">>], [role |-> "assistant", content |-> <<"r">>],
                [role |-> "user", content |-> <<m>>]>> } : m \in {"a", "b", "c"} }

ChatApis == {"chat/completions", "you_chat", "you_advanced"}

\* the messages handed to a mapper, their contents as strings
AsStrings(msgs) ==
    [i \in 1..Len(msgs) |-> [role |-> msgs[i].role, content |-> StringContent(msgs[i].content)]]

\* the fullInput of callAdvanced: every stored turn as "User: " or
\* "Assistant: " (any role but user is rendered as Assistant), then the input
AdvancedFullInput(stored, text) ==
    IF Len(stored) > 0
    THEN <<"[Conversation History]\n">>
           \o JoinWith([i \in 1..Len(stored) |->
                          <<IF stored[i].role = "user" THEN "User: " ELSE "Assistant: ">>
                            \o stored[i].content], "\n\n")
           \o <<"\n\n", "[Current Message]\n">> \o text
    ELSE text

\* a catch block that records the failure as an assistant turn
MemAfterFailureStored(store, id, t) == MemAddMessage(store, id, "assistant", <<"error">>, t)

\* the catch blocks store nothing
MemAfterFailure(store, id, t) == store

LastUserContent(messages) == FindLast(messages, IsUser)[1].content

ChatInit ==
    /\ StreamIdle /\ McpIdle /\ NoRequests /\ AuthIdle /\ ServerIdle
    /\ \E turns \in StoredConversations, api \in ChatApis, messages \in ChatRequests :
          LET n == Len(turns)
          IN /\ memoryStore =
                   [k \in {StreamConv} |->
                       [messages |-> [i \in 1..n |-> [role |-> turns[i].role,
                                                      content |-> turns[i].content,
                                                      timestamp |-> i]],
                        createdAt |-> 0, updatedAt |-> n]]
             /\ db = IF api = "chat/completions"
                     THEN [conversations |-> [k \in {StreamConv} |->
                                                 [created_at |-> 0, updated_at |-> n]],
                           messages |-> [i \in 1..n |->
                                            [id |-> i, conversation_id |-> StreamConv,
                                             role |-> turns[i].role,
                                             content |-> turns[i].content,
                                             timestamp |-> i]],
                           seq |-> n]
                     ELSE [conversations |-> EmptyMap, messages |-> <<>>, seq |-> 0]
             /\ now = n + 1
             /\ promptReq = [api |-> api, messages |-> messages, system |-> <<>>,
                             pc |-> "call", before |-> turns, key |-> "none"]
    /\ opCount = 0 /\ history = <<>>
    /\ SaveSettled
    /\ input = <<>>

\* POST /v1/chat/completions up to `await callYouApi`
ChatCompletionsSync ==
    /\ promptReq.pc = "call" /\ promptReq.api = "chat/completions"
    /\ LET messages == promptReq.messages
       IN /\ memoryStore' = MemChatRequest(memoryStore, StreamConv, messages, now)
          /\ db' = SqlChatRequest(db, StreamConv, messages, now)
          /\ SaveIf(SqlChatRequestSaves(db, StreamConv, messages))
          /\ input' = [memory |-> mapOpenAIToYouParams(
                                    AsStrings(MemFullMessages(memoryStore, StreamConv, messages))),
                       sqlite |-> mapOpenAIToYouParams(
                                    AsStrings(SqlFullMessages(db, StreamConv, messages)))]
    /\ promptReq' = [promptReq EXCEPT !.pc = "awaiting"]
    /\ now' = now + 1
    /\ UNCHANGED <<opCount, history>>
    /\ UNCHANGED <<streamVars, mcpVars, reqVars, authVars, serverVars>>

\* the key a tool takes with getNextApiKey at its first statement
TakeKey(r) ==
    /\ currentKeyIndex' = r.currentKeyIndex
    /\ keyUsageCount' = Bump(keyUsageCount, r.key)
    /\ rotLog' = Append(rotLog, [op |-> "next", key |-> r.key])
    /\ upstreamCalls' = upstreamCalls + 1
    /\ UNCHANGED <<KEY_MODE, API_KEYS, YOU_AGENT_FAILURE_THRESHOLD, keyErrorCount,
                   youAgentFailureCount, youAgentDisabled, toolCall, agentFailedCalls,
                   keyFailedCalls>>

\* callChat up to `await callYouApi`
CallChatSync ==
    /\ promptReq.pc = "call" /\ promptReq.api = "you_chat"
    /\ \E r \in getNextApiKey(KEY_MODE, API_KEYS, currentKeyIndex) :
          /\ TakeKey(r)
          /\ promptReq' = [promptReq EXCEPT !.pc = "awaiting", !.key = r.key]
    /\ LET messages == promptReq.messages
           s0 == MemGetConversation(memoryStore, StreamConv, now)
           fullMessages == MemFullMessages(s0, StreamConv, messages)
           lastUserMsg == FindLast(fullMessages, IsUser)
       IN /\ memoryStore' = IF lastUserMsg # <<>>
                            THEN MemAddMessage(s0, StreamConv, "user", lastUserMsg[1].content, now)
                            ELSE s0
          /\ input' = [memory |-> buildConversationInput(AsStrings(fullMessages))]
    /\ now' = now + 1
    /\ UNCHANGED <<db, opCount, history, saveVars>>
    /\ UNCHANGED <<streamVars, reqVars, authVars, serverVars>>

\* callAdvanced up to `await callYouApi`: its input is the last user message
CallAdvancedSync ==
    /\ promptReq.pc = "call" /\ promptReq.api = "you_advanced"
    /\ \E r \in getNextApiKey(KEY_MODE, API_KEYS, currentKeyIndex) :
          /\ TakeKey(r)
          /\ promptReq' = [promptReq EXCEPT !.pc = "awaiting", !.key = r.key]
    /\ LET text == LastUserContent(promptReq.messages)
           s0 == MemGetConversation(memoryStore, StreamConv, now)
       IN /\ memoryStore' = MemAddMessage(s0, StreamConv, "user", text, now)
          /\ input' = [memory |-> AdvancedFullInput(s0[StreamConv].messages, text)]
    /\ now' = now + 1
    /\ UNCHANGED <<db, opCount, history, saveVars>>
    /\ UNCHANGED <<streamVars, reqVars, authVars, serverVars>>

\* the upstream answers: handleNonStreamingResponse, or the try block of the tool
ChatAnswers ==
    /\ promptReq.pc = "awaiting"
    /\ IF promptReq.api = "chat/completions"
       THEN \E content \in {<<"r">>, <<>>} :
               /\ memoryStore' = MemStoreAnswer(memoryStore, StreamConv, <<>>, content, now)
               /\ db' = SqlStoreAnswer(db, StreamConv, <<>>, content, now)
               /\ SaveIf(content # <<>>)
       ELSE /\ memoryStore' = MemAddMessage(memoryStore, StreamConv, "assistant", <<"r">>, now)
            /\ UNCHANGED <<db, saveVars>>
    /\ promptReq' = [promptReq EXCEPT !.pc = "answered"]
    /\ now' = now + 1
    /\ UNCHANGED <<opCount, history, input>>
    /\ UNCHANGED <<streamVars, mcpVars, reqVars, authVars, serverVars>>

\* callYouApi or response.json() throws: the catch block of the route (an
\* error response) or of the tool (markKeyError, rethrow)
ChatFails ==
    /\ promptReq.pc = "awaiting"
    /\ memoryStore' = MemAfterFailure(memoryStore, StreamConv, now)
    /\ IF promptReq.api = "chat/completions"
       THEN UNCHANGED mcpVars
       ELSE /\ currentKeyIndex' = markKeyError(KEY_MODE, API_KEYS, currentKeyIndex)
            /\ keyErrorCount' = Bump(keyErrorCount, promptReq.key)
            /\ keyFailedCalls' = Bump(keyFailedCalls, promptReq.key)
            /\ rotLog' = Append(rotLog, [op |-> "error", key |-> promptReq.key])
            /\ UNCHANGED <<KEY_MODE, API_KEYS, YOU_AGENT_FAILURE_THRESHOLD, keyUsageCount,
                           youAgentFailureCount, youAgentDisabled, toolCall, upstreamCalls,
                           agentFailedCalls>>
    /\ promptReq' = [promptReq EXCEPT !.pc = "failed"]
    /\ now' = now + 1
    /\ UNCHANGED <<db, opCount, history, saveVars, input>>
    /\ UNCHANGED <<streamVars, reqVars, authVars, serverVars>>

ChatNext ==
    \/ ChatCompletionsSync
    \/ CallChatSync
    \/ CallAdvancedSync
    \/ ChatAnswers
    \/ ChatFails

ChatSpec == ChatInit /\ [][ChatNext]_vars

\* the turns of the conversation of the request, per backend in use
ChatTurns ==
    IF promptReq.api = "chat/completions"
    THEN [memory |-> RoleContent(memoryStore[StreamConv].messages),
          sqlite |-> RoleContent(SqlMessages(db, StreamConv))]
    ELSE [memory |-> RoleContent(memoryStore[StreamConv].messages)]

\* the current message of an assembled prompt: what follows the
\* current-message label, or the whole prompt after the system block
CurrentMessageOf(prompt) ==
    LET labels == {i \in 1..Len(prompt) : prompt[i] = "[Current Message]\n"}
    IN IF labels # {}
       THEN SubSeq(prompt, (CHOOSE i \in labels : TRUE) + 1, Len(prompt))
       ELSE IF prompt # <<>> /\ prompt[1] = "[System Instructions]\n"
            THEN SubSeq(prompt, 4, Len(prompt))
            ELSE prompt

\* the user message m the request ends with
RequestM == promptReq.messages[Len(promptReq.messages)].content

\* C35: for a chat request (POST /v1/chat/completions or you_chat) on an
\* existing conversation whose messages end with user message m, the user
\* turn appended to the store has content m and the current message of the
\* assembled prompt is m, also when an earlier stored user turn has the
\* content of m
C35_CurrentMessageIsM ==
    (promptReq.api \in {"chat/completions", "you_chat"} /\ promptReq.pc = "awaiting") =>
        \A b \in DOMAIN input :
            /\ ChatTurns[b][Len(ChatTurns[b])] = [role |-> "user", content |-> RequestM]
            /\ CurrentMessageOf(input[b]) = RequestM

\* the same when no stored user turn has the content of m
C35_FreshMessage ==
    (/\ promptReq.api \in {"chat/completions", "you_chat"} /\ promptReq.pc = "awaiting"
     /\ \A i \in 1..Len(promptReq.before) :
           promptReq.before[i].role = "user" => promptReq.before[i].content # RequestM) =>
        \A b \in DOMAIN input :
            /\ ChatTurns[b][Len(ChatTurns[b])] = [role |-> "user", content |-> RequestM]
            /\ CurrentMessageOf(input[b]) = RequestM

\* a request with a message no stored turn has was merged and its turn stored
C35_FreshMerged ==
    /\ promptReq.api \in {"chat/completions", "you_chat"} /\ promptReq.pc = "awaiting"
    /\ Len(promptReq.before) >= 2
    /\ \A i \in 1..Len(promptReq.before) : promptReq.before[i].content # RequestM

C39_StreamFailureAppendsNothing ==
    (pc = "returned" /\ upEnd \in {"error", "callfail", "nobody"}) =>
        /\ RoleContent(memoryStore[StreamConv].messages) = <<[role |-> "user", content |-> <<"x">>]>>
        /\ RoleContent(SqlMessages(db, StreamConv)) = <<[role |-> "user", content |-> <<"x">>]>>

\* a stream has failed after text was accumulated
C39_StreamFailed ==
    pc = "returned" /\ upEnd = "error" /\ fullContent # <<>>

\* a chat-completions step whose request carries a system message, on a
\* conversation that has no system turn on either backend and exists afterwards
SystemForBareConversation ==
    /\ Len(history') = Len(history) + 1
    /\ history'[Len(history')].name = "chat"
    /\ FindFirst(history'[Len(history')].messages, IsSystem) # <<>>
    /\ LET id == history'[Len(history')].id
       IN /\ MemHas(memoryStore, id) => FindFirst(memoryStore[id].messages, IsSystem) = <<>>
          /\ SqlHas(db, id) => FindFirst(SqlMessages(db, id), IsSystem) = <<>>
          /\ MemHas(memoryStore', id) /\ SqlHas(db', id)

\* the system turn the request of the step asks for
RequestedSystemTurn ==
    [role |-> "system",
     content |-> FindFirst(history'[Len(history')].messages, IsSystem)[1].content]

\* C36: when a chat-completions request carries a system message for a
\* conversation that has no system turn yet, a get of the conversation
\* afterwards returns that system turn as its first turn, on the sqlite and
\* on the memory backend
C36_SystemTurnFirst ==
    [][SystemForBareConversation =>
         LET id == history'[Len(history')].id
         IN /\ RoleContent(memoryStore'[id].messages)[1] = RequestedSystemTurn
            /\ RoleContent(SqlMessages(db', id))[1] = RequestedSystemTurn]_vars

\* the same on the memory backend alone
C36_MemorySystemTurnFirst ==
    [][SystemForBareConversation =>
         LET id == history'[Len(history')].id
         IN RoleContent(memoryStore'[id].messages)[1] = RequestedSystemTurn]_vars

\* a system message was sent for a conversation whose first turn is no system turn
C36_SystemSent ==
    /\ history # <<>> /\ history[Len(history)].name = "chat"
    /\ Len(history[Len(history)].messages) = 2
    /\ SqlHas(db, "c1") /\ SqlMessages(db, "c1")[1].role # "system"
    /\ MemHas(memoryStore, "c1") /\ memoryStore["c1"].messages[1].role = "system"

\* a createConversation step
CreateStep ==
    /\ Len(history') = Len(history) + 1
    /\ history'[Len(history')].name = "create"

\* C37: create(id) with an id that already exists leaves the same observable
\* conversation on both backends: a get(id) afterwards returns the same turn
\* sequence on sqlite and on memory
C37_CreateExistingAgrees ==
    [][(CreateStep /\ MemHas(memoryStore, history'[Len(history')].id)
          /\ SqlHas(db, history'[Len(history')].id)) =>
         LET id == history'[Len(history')].id
         IN RoleContent(memoryStore'[id].messages) = RoleContent(SqlMessages(db', id))]_vars

\* create(id) with an id neither backend holds leaves both with no turn
C37_CreateFreshAgrees ==
    [][(CreateStep /\ ~MemHas(memoryStore, history'[Len(history')].id)
          /\ ~SqlHas(db, history'[Len(history')].id)) =>
         LET id == history'[Len(history')].id
         IN /\ RoleContent(memoryStore'[id].messages) = <<>>
            /\ RoleContent(SqlMessages(db', id)) = <<>>]_vars

\* a conversation with turns was created again
C37_CreatedAgain ==
    /\ history # <<>> /\ history[Len(history)].name = "create"
    /\ MemHas(memoryStore, "c1") /\ memoryStore["c1"].messages = <<>>
    /\ SqlMessages(db, "c1") # <<>>

(***************************************************************************)
(* controlOpenAIServer: the MCP tool that spawns, stops and restarts the   *)
(* HTTP server as a child process.  A child is "spawned" (alive, has not   *)
(* yet reported), "reported" (alive, has written 'running' to stderr),     *)
(* "killed" (SIGTERM sent, exit event not yet delivered) or "exited".      *)
(***************************************************************************)
MaxSpawns == 3     \* children spawned per behaviour

IsAlive(p) == children[p] \in {"spawned", "reported"}

\* openaiServerProcess.kill('SIGTERM')
Killed(cs, p) ==
    IF p # 0 /\ cs[p] \in {"spawned", "reported"} THEN [cs EXCEPT ![p] = "killed"] ELSE cs

\* case 'start' past its guard: spawn, then await the startup promise
StartBody ==
    /\ Len(children) < MaxSpawns
    /\ children' = Append(children, "spawned")
    /\ openaiServerProcess' = Len(children) + 1
    /\ openaiServerStatus' = "starting"
    /\ startWaits' = startWaits \cup {Len(children) + 1}

ServerFrame ==
    UNCHANGED <<storeVars, streamVars, mcpVars, reqVars, promptVars, authVars>>

\* action 'start': refused while a child is referenced and the status is 'running'
ControlStart ==
    /\ ~(openaiServerProcess # 0 /\ openaiServerStatus = "running")
    /\ StartBody
    /\ UNCHANGED restartWaits
    /\ ServerFrame

\* action 'stop'
ControlStop ==
    /\ ~(openaiServerProcess = 0 \/ openaiServerStatus = "stopped")
    /\ children' = Killed(children, openaiServerProcess)
    /\ openaiServerProcess' = 0
    /\ openaiServerStatus' = "stopped"
    /\ UNCHANGED <<startWaits, restartWaits>>
    /\ ServerFrame

\* action 'restart': kill a running child and pause 1000 ms, or start at once
ControlRestart ==
    /\ IF openaiServerProcess # 0 /\ openaiServerStatus = "running"
       THEN /\ Len(children) < MaxSpawns
            /\ children' = Killed(children, openaiServerProcess)
            /\ openaiServerProcess' = 0
            /\ openaiServerStatus' = "stopped"
            /\ restartWaits' = restartWaits + 1
            /\ UNCHANGED startWaits
       ELSE /\ StartBody
            /\ UNCHANGED restartWaits
    /\ ServerFrame

\* the pause of a restart ends: the recursive call with action 'start'
RestartResumes ==
    /\ restartWaits > 0
    /\ restartWaits' = restartWaits - 1
    /\ IF openaiServerProcess # 0 /\ openaiServerStatus = "running"
       THEN UNCHANGED <<openaiServerProcess, openaiServerStatus, children, startWaits>>
       ELSE StartBody
    /\ ServerFrame

\* stderr 'data' of child p includes 'running'
StartupReported(p) ==
    /\ p \in 1..Len(children) /\ children[p] = "spawned"
    /\ children' = [children EXCEPT ![p] = "reported"]
    /\ openaiServerStatus' = "running"
    /\ startWaits' = startWaits \ {p}
    /\ UNCHANGED <<openaiServerProcess, restartWaits>>
    /\ ServerFrame

\* the 2000 ms timer of the start call of child p fires
StartupTimeout(p) ==
    /\ p \in startWaits
    /\ openaiServerStatus' = "running"
    /\ startWaits' = startWaits \ {p}
    /\ UNCHANGED <<openaiServerProcess, children, restartWaits>>
    /\ ServerFrame

\* the exit code null of a child ended by a signal
NULL_CODE == -1

\* child p exits with a code (0, 1, or null after a signal): the 'exit' handler,
\* and the catch block of the start call when its promise is rejected
ChildExit(p, code) ==
    /\ p \in 1..Len(children) /\ children[p] # "exited"
    /\ children[p] = "killed" => code = NULL_CODE
    /\ children' = [children EXCEPT ![p] = "exited"]
    /\ IF code # 0 /\ openaiServerStatus = "starting"
       THEN /\ openaiServerStatus' = IF p \in startWaits THEN "error" ELSE "stopped"
            /\ startWaits' = startWaits \ {p}
       ELSE UNCHANGED <<openaiServerStatus, startWaits>>
    /\ UNCHANGED <<openaiServerProcess, restartWaits>>
    /\ ServerFrame

ServerInit ==
    /\ StreamIdle /\ McpIdle /\ NoRequests /\ PromptIdle /\ AuthIdle
    /\ memoryStore = EmptyMap
    /\ db = [conversations |-> EmptyMap, messages |-> <<>>, seq |-> 0]
    /\ now = 1 /\ opCount = 0 /\ history = <<>>
    /\ SaveSettled
    /\ ServerIdle

ServerNext ==
    \/ ControlStart
    \/ ControlStop
    \/ ControlRestart
    \/ RestartResumes
    \/ \E p \in 1..MaxSpawns : StartupReported(p)
    \/ \E p \in 1..MaxSpawns : StartupTimeout(p)
    \/ \E p \in 1..MaxSpawns, code \in {0, 1, NULL_CODE} : ChildExit(p, code)

ServerSpec == ServerInit /\ [][ServerNext]_vars

\* C38: across the interleavings of start, stop, restart and child exits,
\* every spawned process that is alive is the one openaiServerProcess
\* refers to, so at most one child is alive, and 'running' is reported only
\* while that child is alive
C38_OneReferencedChild ==
    /\ \A p \in 1..Len(children) : IsAlive(p) => openaiServerProcess = p
    /\ Cardinality({p \in 1..Len(children) : IsAlive(p)}) <= 1
    /\ openaiServerStatus = "running" =>
          (openaiServerProcess # 0 /\ IsAlive(openaiServerProcess))

\* start was called while an earlier start was still 'starting': two
\* children are alive and the first is referenced by nothing
C38_Orphan ==
    /\ Len(children) >= 2 /\ IsAlive(1) /\ IsAlive(2)
    /\ openaiServerProcess = 2

(***************************************************************************)
(* Upstream byte streams whose last record may lack its terminator: the    *)
(* upstream closes the stream right after the last data line, after one    *)
(* newline, or after the blank line.                                       *)
(***************************************************************************)
TailRecords == {DeltaRecord(<<"a">>), DeltaRecord(<<"b">>)}

\* the bytes s without their last n bytes
DropLast(s, n) == SubSeq(s, 1, Len(s) - n)

TailInit ==
    /\ StreamStoreInit
    /\ \E r \in {"flat", "typed"}, recs \in SeqsUpTo(TailRecords, MaxRecords),
          missing \in 0..2 :
          /\ recs # <<>>
          /\ LET bytes == DropLast(Concat(recs), missing)
             IN \E cuts \in CutSets(Len(bytes) - 1, MaxChunks - 1) :
                    StreamSessionInit(r, CutAt(bytes, cuts), "done")

TailSpec == TailInit /\ [][DemuxNext]_vars

\* the texts of the data records the upstream sent before it closed
SentDeltaTexts ==
    LET deltaLines == SelectSeq(WireLines, IsDeltaLine)
    IN [i \in 1..Len(deltaLines) |-> DeltaOfLine(deltaLines[i])]

\* the upstream's bytes end with a newline
WireTerminated == Concat(wire)[Len(Concat(wire))] = NL

\* C40: every data record the upstream sent before it closed the stream is
\* processed, a final record not followed by a newline included: its text
\* delta is emitted and is part of the accumulated text
C40_EveryRecordProcessed ==
    pc = "returned" =>
        /\ (IF route = "flat" THEN FlatDeltaTexts ELSE TypedDeltaTexts) = SentDeltaTexts
        /\ fullContent = Concat(SentDeltaTexts)

\* the same for streams whose last data line is followed by a newline
C40_TerminatedProcessed ==
    (pc = "returned" /\ WireTerminated) =>
        /\ (IF route = "flat" THEN FlatDeltaTexts ELSE TypedDeltaTexts) = SentDeltaTexts
        /\ fullContent = Concat(SentDeltaTexts)

\* a stream of two records, the last followed by one newline only, was read
C40_OneNewline ==
    /\ pc = "returned"
    /\ Concat(wire) = DropLast(DeltaRecord(<<"a">>) \o DeltaRecord(<<"b">>), 1)
    /\ fullContent = <<"a", "b">>

\* the delete calls made so far
DeleteCalls == {i \in 1..Len(history) : history[i].name = "delete"}

\* C33: delete(id) returns the same boolean on the memory and the sqlite
\* backend, when a conversation with that id exists and when none does
C33_DeleteReturnsAgree ==
    \A i \in DeleteCalls : history[i].returned.mem = history[i].returned.sql

\* delete returns the same (true) on both backends when the conversation exists
C33_AgreeWhenPresent ==
    \A i \in DeleteCalls :
        history[i].existed => history[i].returned.mem = history[i].returned.sql

\* a delete of a conversation that exists has been made
C33_DeletedPresent == \E i \in DeleteCalls : history[i].existed

\* C32: the assembled prompt is the system block (if there is a system
\* instruction), then the history block of all turns but the last and the
\* current-message block with the last turn's content without role prefix,
\* whichever role the last turn has; one turn gives its bare content, no turn
\* gives nothing; other roles do not appear
C32_PromptAssembled ==
    promptReq.pc = "done" => input = ExpectedPrompt

\* the last user/assistant turn of a mapped request is an assistant turn, and
\* the prompt ends with "Assistant: <content>" instead of the content
C32_AssistantLast ==
    /\ promptReq.pc = "done"
    /\ PromptTurns # <<>>
    /\ PromptTurns[Len(PromptTurns)].role = "assistant"
    /\ input # ExpectedPrompt

\* the assembly is as described whenever the last turn is a user turn (or
\* there is no turn)
C32_UserLastAssembled ==
    (promptReq.pc = "done"
       /\ (PromptTurns # <<>> => PromptTurns[Len(PromptTurns)].role = "user"))
      => input = ExpectedPrompt

====
